---- MODULE Spec2Model ----
(***************************************************************************)
(* Threading examples of the repository, as state machines.                *)
(*                                                                         *)
(*   thread_communication.py   queue_example, priority_queue_example,      *)
(*                             message_passing_example                     *)
(*   thread_synchronization.py semaphore_example, event_example            *)
(*                                                                         *)
(* Each example is a closed program of a few threads; each gets its own    *)
(* group of variables and its own specification.  The library objects the  *)
(* examples share (queue.Queue, queue.PriorityQueue, threading.Semaphore,  *)
(* threading.Event) are modelled by what CPython does under the object's   *)
(* mutex: one action is one critical section.  time.sleep and print change *)
(* no state and are left out; a message label such as "消息-3" is modelled   *)
(* by its number.                                                          *)
(***************************************************************************)
EXTENDS Integers, Sequences, FiniteSets, TLC

VARIABLES
    \* ---- queue_example
    qe_queue,       \* message_queue: the items stored, oldest first
    qe_unfinished,  \* message_queue.unfinished_tasks
    qe_main,        \* position of the main thread
    qe_prod,        \* position of the producer thread
    qe_i,           \* producer's loop variable i
    qe_cons,        \* position of the consumer thread
    qe_received,    \* consumer's messages_received
    qe_putLog,      \* history: items whose put returned, in order
    qe_recvLog,     \* history: items get returned, in order
    qe_fullSeen,    \* history: items whose put raised queue.Full
    qe_emptySeen,   \* history: some get raised queue.Empty
    qe_acks,        \* history: number of task_done calls that returned
    \* ---- a bounded queue driven by arbitrary callers
    bq_queue,       \* the items stored, oldest first
    bq_unfinished,  \* unfinished_tasks
    bq_next,        \* label of the next item a caller puts
    bq_got,         \* history: items get returned, in order
    bq_result,      \* outcome of the last call
    bq_acks,        \* history: number of task_done calls that returned
    \* ---- message_passing_example
    bus_queue,      \* message_bus: the messages stored, oldest first
    bus_unfinished, \* message_bus.unfinished_tasks
    bus_main,       \* position of the main thread
    bus_handler,    \* position of the message_handler thread
    bus_a,          \* position of service_a
    bus_ai,         \* service_a's loop variable i
    bus_b,          \* position of service_b
    bus_bi,         \* service_b's loop variable i
    bus_enq,        \* history: messages whose put returned, in order
    bus_handled,    \* history: messages the handler processed, in order
    bus_acks,       \* history: number of task_done calls that returned
    \* ---- priority_queue_example
    pq_input,       \* messages_with_priority: the list the producer inserts
    pq_heap,        \* priority_queue.queue: the heap array
    pq_unfinished,  \* priority_queue.unfinished_tasks
    pq_main,        \* position of the main thread
    pq_prod,        \* position of priority_producer
    pq_pi,          \* number of list entries the producer has inserted
    pq_cons,        \* position of priority_consumer
    pq_log,         \* history: per get, the item returned and the heap before
    \* ---- semaphore_example
    sem_value,      \* semaphore._value: the permits available
    sem_main,       \* position of the main thread
    sem_k,          \* main's progress in its current loop over the threads
    sem_thread,     \* position of each resource_access thread
    \* ---- event_example
    ev_flag,        \* event._flag
    ev_blocked,     \* the waiters blocked inside event.wait()
    ev_main,        \* position of the main thread
    ev_k,           \* main's progress in its current loop over the waiters
    ev_waiter,      \* position of each waiter_function thread
    ev_setter,      \* position of the setter_function thread
    ev_how,         \* history: how each waiter's wait() returned
    \* ---- condition_example
    cond_owner,     \* the thread holding condition's lock, or "none"
    cond_waiters,   \* condition._waiters: the threads blocked in wait(), oldest first
    cond_queue,     \* queue: the shared list
    cond_main,      \* position of the main thread
    cond_pc,        \* position of the producer and of the consumer thread
    cond_i,         \* producer's loop variable i
    cond_consumed,  \* consumer's items_consumed
    cond_log,       \* history: the items the consumer removed, in order
    cond_waited,    \* history: the threads that have blocked in wait()
    \* ---- pipe_example
    pipe_toParent,  \* messages sent on child_conn and not yet received on parent_conn
    pipe_toChild,   \* messages sent on parent_conn and not yet received on child_conn
    pipe_main,      \* position of the main thread
    pipe_pc,        \* position of the server and of the client thread
    pipe_i,         \* loop variable i of the server and of the client
    pipe_message,   \* pipe_server's local variable message
    pipe_response,  \* pipe_server's local variable response
    pipe_sent,      \* history: the messages whose send() returned, per thread
    pipe_got,       \* history: the messages recv() returned, per thread
    \* ---- lock_example
    lock_locked,    \* lock: TRUE while some thread holds it
    shared_counter, \* the global shared_counter
    lock_main,      \* position of the main thread
    lock_mi,        \* main's position in its loops over the threads
    lock_pc,        \* position of each increment_counter thread
    lock_i,         \* loop variable i of each thread
    lock_current,   \* local variable current_value of each thread
    \* ---- event_communication_example
    ec_flag,        \* _flag of data_ready and of data_processed
    ec_blocked,     \* the threads blocked inside wait() of each event
    ec_global,      \* the module's global shared_data, which data_generator assigns
    ec_shared,      \* shared_data of event_communication_example, which data_processor reads
    ec_main,        \* position of the main thread
    ec_pc,          \* position of the generator and of the processor thread
    ec_i,           \* loop variable i of each thread
    ec_read,        \* history: the values data_processor printed
    ec_log,         \* history: the writes, reads, set() and clear() calls, in order
    \* ---- shared_variable_example
    sv_value,       \* shared_data["value"]
    sv_updated,     \* shared_data["updated"]
    sv_locked,      \* lock: TRUE while a thread holds it
    sv_main,        \* position of the main thread
    sv_pc,          \* position of the producer and of the consumer thread
    sv_i,           \* data_producer's loop variable i
    sv_received,    \* data_consumer's updates_received
    sv_written,     \* history: the values data_producer wrote, in order
    sv_log,         \* history: the values data_consumer read, in order
    \* ---- Test.py: FunctionA, FunctionB and main
    fa_state,       \* FunctionA.state
    fa_count,       \* FunctionA.count
    fa_locked,      \* FunctionA._lock: TRUE while a thread holds it
    fa_running,     \* FunctionA._running
    fa_thread,      \* position of FunctionA._thread in _run, or "none"
    fa_main,        \* position of the event loop's thread in main and FunctionB.run
    fb_check_count, \* FunctionB.check_count
    fb_seen,        \* current_state, current_count of FunctionB.run
    fa_atStop       \* history: state and count when stop() returned

qeVars == <<qe_queue, qe_unfinished, qe_main, qe_prod, qe_i, qe_cons,
            qe_received, qe_putLog, qe_recvLog, qe_fullSeen, qe_emptySeen,
            qe_acks>>
bqVars == <<bq_queue, bq_unfinished, bq_next, bq_got, bq_result, bq_acks>>

busVars == <<bus_queue, bus_unfinished, bus_main, bus_handler, bus_a, bus_ai,
             bus_b, bus_bi, bus_enq, bus_handled, bus_acks>>

pqVars == <<pq_input, pq_heap, pq_unfinished, pq_main, pq_prod, pq_pi, pq_cons,
            pq_log>>

semVars == <<sem_value, sem_main, sem_k, sem_thread>>
evVars == <<ev_flag, ev_blocked, ev_main, ev_k, ev_waiter, ev_setter, ev_how>>

condVars == <<cond_owner, cond_waiters, cond_queue, cond_main, cond_pc, cond_i,
              cond_consumed, cond_log, cond_waited>>

pipeVars == <<pipe_toParent, pipe_toChild, pipe_main, pipe_pc, pipe_i,
              pipe_message, pipe_response, pipe_sent, pipe_got>>

lockVars == <<lock_locked, shared_counter, lock_main, lock_mi, lock_pc, lock_i,
              lock_current>>

ecVars == <<ec_flag, ec_blocked, ec_global, ec_shared, ec_main, ec_pc, ec_i,
            ec_read, ec_log>>

svVars == <<sv_value, sv_updated, sv_locked, sv_main, sv_pc, sv_i, sv_received,
            sv_written, sv_log>>

faVars == <<fa_state, fa_count, fa_locked, fa_running, fa_thread, fa_main,
            fb_check_count, fb_seen, fa_atStop>>

vars == <<qeVars, bqVars, busVars, pqVars, semVars, evVars, condVars,
          pipeVars, lockVars, ecVars, svVars, faVars>>

qeOthers == <<bqVars, busVars, pqVars, semVars, evVars, condVars, pipeVars,
              lockVars, ecVars, svVars, faVars>>
bqOthers == <<qeVars, busVars, pqVars, semVars, evVars, condVars, pipeVars,
              lockVars, ecVars, svVars, faVars>>
busOthers == <<qeVars, bqVars, pqVars, semVars, evVars, condVars, pipeVars,
               lockVars, ecVars, svVars, faVars>>
pqOthers == <<qeVars, bqVars, busVars, semVars, evVars, condVars, pipeVars,
              lockVars, ecVars, svVars, faVars>>
semOthers == <<qeVars, bqVars, busVars, pqVars, evVars, condVars, pipeVars,
               lockVars, ecVars, svVars, faVars>>
evOthers == <<qeVars, bqVars, busVars, pqVars, semVars, condVars, pipeVars,
              lockVars, ecVars, svVars, faVars>>
condOthers == <<qeVars, bqVars, busVars, pqVars, semVars, evVars, pipeVars,
                lockVars, ecVars, svVars, faVars>>
pipeOthers == <<qeVars, bqVars, busVars, pqVars, semVars, evVars, condVars,
                lockVars, ecVars, svVars, faVars>>
lockOthers == <<qeVars, bqVars, busVars, pqVars, semVars, evVars, condVars,
                pipeVars, ecVars, svVars, faVars>>
ecOthers == <<qeVars, bqVars, busVars, pqVars, semVars, evVars, condVars,
              pipeVars, lockVars, svVars, faVars>>
svOthers == <<qeVars, bqVars, busVars, pqVars, semVars, evVars, condVars,
              pipeVars, lockVars, ecVars, faVars>>
faOthers == <<qeVars, bqVars, busVars, pqVars, semVars, evVars, condVars,
              pipeVars, lockVars, ecVars, svVars>>

(***************************************************************************)
(* queue.Queue, as the examples use it.                                    *)
(***************************************************************************)

\* Queue.put waits (or gives up with Full) while maxsize > 0 and
\* qsize >= maxsize; a maxsize <= 0 is an unbounded queue.
\* Queue.__init__(maxsize=0): the constructor stores maxsize and raises for
\* no value of it.
QInitRejectsNonPositive(maxsize) == maxsize <= 0
QInitRejects(maxsize) == FALSE

QFullOffByOne(q, maxsize) == maxsize > 0 /\ Len(q) > maxsize
QFull(q, maxsize) == maxsize > 0 /\ Len(q) >= maxsize

\* Queue._put: append at the right end.
QPut(q, item) == Append(q, item)

\* Queue._get: popleft, the item returned and the items left.
QGetLifo(q) == [item |-> q[Len(q)], rest |-> SubSeq(q, 1, Len(q) - 1)]
QGet(q) == [item |-> Head(q), rest |-> Tail(q)]

\* unfinished_tasks after a put and after a get: put counts the item, get
\* does not touch the counter.
QUnfinishedAfterPut(n) == n + 1

QUnfinishedAfterGetDecrements(n) == IF n > 0 THEN n - 1 ELSE 0
QUnfinishedAfterGet(n) == n

\* Queue.task_done: raises ValueError when the counter would go negative.
QTaskDoneNeverFails(n) == FALSE
QTaskDoneFails(n) == n - 1 < 0
QUnfinishedAfterTaskDone(n) == n - 1

\* Queue.join returns when unfinished_tasks is 0.
QJoinReturns(n) == n = 0

(***************************************************************************)
(* queue_example                                                           *)
(***************************************************************************)

QE_maxsize == 10        \* queue.Queue(maxsize=10)
QE_first == 1           \* range(1, 11)
QE_stop == 11
QE_target == 10         \* while messages_received < 10

QE_Init ==
    /\ qe_queue = << >>
    /\ qe_unfinished = 0
    /\ qe_main = "start_producer"
    /\ qe_prod = "idle"
    /\ qe_i = QE_first
    /\ qe_cons = "idle"
    /\ qe_received = 0
    /\ qe_putLog = << >>
    /\ qe_recvLog = << >>
    /\ qe_fullSeen = {}
    /\ qe_emptySeen = FALSE
    /\ qe_acks = 0

\* for i in range(1, 11): the position after one pass of the producer's loop.
QE_ProducerAfter(i) == IF i + 1 < QE_stop THEN "put" ELSE "done"

\* while messages_received < 10: the position after one pass of the
\* consumer's loop.
QE_ConsumerAfterNoCheck(n) == "get"
QE_ConsumerAfter(n) == IF n < QE_target THEN "get" ELSE "done"

\* producer_thread.start()
QE_MainStartProducer ==
    /\ qe_main = "start_producer"
    /\ qe_main' = "start_consumer"
    /\ qe_prod' = IF QE_first < QE_stop THEN "put" ELSE "done"
    /\ UNCHANGED <<qe_queue, qe_unfinished, qe_i, qe_cons, qe_received,
                   qe_putLog, qe_recvLog, qe_fullSeen, qe_emptySeen, qe_acks>>
    /\ UNCHANGED qeOthers

\* consumer_thread.start()
QE_MainStartConsumer ==
    /\ qe_main = "start_consumer"
    /\ qe_main' = "join_producer"
    /\ qe_cons' = QE_ConsumerAfter(qe_received)
    /\ UNCHANGED <<qe_queue, qe_unfinished, qe_prod, qe_i, qe_received,
                   qe_putLog, qe_recvLog, qe_fullSeen, qe_emptySeen, qe_acks>>
    /\ UNCHANGED qeOthers

\* producer_thread.join()
QE_MainJoinProducer ==
    /\ qe_main = "join_producer"
    /\ qe_prod = "done"
    /\ qe_main' = "queue_join"
    /\ UNCHANGED <<qe_queue, qe_unfinished, qe_prod, qe_i, qe_cons, qe_received,
                   qe_putLog, qe_recvLog, qe_fullSeen, qe_emptySeen, qe_acks>>
    /\ UNCHANGED qeOthers

\* message_queue.join()
QE_MainQueueJoin ==
    /\ qe_main = "queue_join"
    /\ QJoinReturns(qe_unfinished)
    /\ qe_main' = "join_consumer"
    /\ UNCHANGED <<qe_queue, qe_unfinished, qe_prod, qe_i, qe_cons, qe_received,
                   qe_putLog, qe_recvLog, qe_fullSeen, qe_emptySeen, qe_acks>>
    /\ UNCHANGED qeOthers

\* consumer_thread.join()
QE_MainJoinConsumer ==
    /\ qe_main = "join_consumer"
    /\ qe_cons \in {"done", "crashed"}
    /\ qe_main' = "done"
    /\ UNCHANGED <<qe_queue, qe_unfinished, qe_prod, qe_i, qe_cons, qe_received,
                   qe_putLog, qe_recvLog, qe_fullSeen, qe_emptySeen, qe_acks>>
    /\ UNCHANGED qeOthers

\* One pass of the producer's loop: put(message, block=True, timeout=1)
\* either stores the message or, the queue having stayed full for the whole
\* timeout, raises queue.Full, which the producer catches and prints.
QE_ProducerPut ==
    /\ qe_prod = "put"
    /\ IF QFull(qe_queue, QE_maxsize)
       THEN /\ qe_fullSeen' = qe_fullSeen \cup {qe_i}
            /\ UNCHANGED <<qe_queue, qe_unfinished, qe_putLog>>
       ELSE /\ qe_queue' = QPut(qe_queue, qe_i)
            /\ qe_unfinished' = QUnfinishedAfterPut(qe_unfinished)
            /\ qe_putLog' = Append(qe_putLog, qe_i)
            /\ UNCHANGED qe_fullSeen
    /\ qe_i' = qe_i + 1
    /\ qe_prod' = QE_ProducerAfter(qe_i)
    /\ UNCHANGED <<qe_main, qe_cons, qe_received, qe_recvLog, qe_emptySeen, qe_acks>>
    /\ UNCHANGED qeOthers

\* The consumer's get(block=True, timeout=2): returns the oldest item, or,
\* the queue having stayed empty for the whole timeout, raises queue.Empty,
\* which the consumer catches; the loop then tests messages_received again.
QE_ConsumerGet ==
    /\ qe_cons = "get"
    /\ IF Len(qe_queue) = 0
       THEN /\ qe_emptySeen' = TRUE
            /\ qe_cons' = QE_ConsumerAfter(qe_received)
            /\ UNCHANGED <<qe_queue, qe_unfinished, qe_received, qe_recvLog>>
       ELSE /\ qe_recvLog' = Append(qe_recvLog, QGet(qe_queue).item)
            /\ qe_queue' = QGet(qe_queue).rest
            /\ qe_unfinished' = QUnfinishedAfterGet(qe_unfinished)
            /\ qe_received' = qe_received + 1
            /\ qe_cons' = "task_done"
            /\ UNCHANGED qe_emptySeen
    /\ UNCHANGED <<qe_main, qe_prod, qe_i, qe_putLog, qe_fullSeen, qe_acks>>
    /\ UNCHANGED qeOthers

\* message_queue.task_done(); a ValueError is not caught by the consumer's
\* except clause and ends the thread.
QE_ConsumerTaskDone ==
    /\ qe_cons = "task_done"
    /\ IF QTaskDoneFails(qe_unfinished)
       THEN /\ qe_cons' = "crashed"
            /\ UNCHANGED <<qe_unfinished, qe_acks>>
       ELSE /\ qe_unfinished' = QUnfinishedAfterTaskDone(qe_unfinished)
            /\ qe_acks' = qe_acks + 1
            /\ qe_cons' = QE_ConsumerAfter(qe_received)
    /\ UNCHANGED <<qe_queue, qe_main, qe_prod, qe_i, qe_received, qe_putLog,
                   qe_recvLog, qe_fullSeen, qe_emptySeen>>
    /\ UNCHANGED qeOthers

QE_Main ==
    \/ QE_MainStartProducer
    \/ QE_MainStartConsumer
    \/ QE_MainJoinProducer
    \/ QE_MainQueueJoin
    \/ QE_MainJoinConsumer

QE_Producer == QE_ProducerPut

QE_Consumer == QE_ConsumerGet \/ QE_ConsumerTaskDone

QE_Next == QE_Main \/ QE_Producer \/ QE_Consumer

(***************************************************************************)
(* A bounded queue under arbitrary callers: any number of threads calling  *)
(* put(item, timeout), get(timeout) and task_done() in any order.  Each    *)
(* call is one critical section of the queue's mutex; a caller blocked in  *)
(* put or get changes nothing until it is served or times out.             *)
(***************************************************************************)

BQCap == 2          \* capacity of the queue
BQItems == 4        \* number of items the callers put

BQ_Init ==
    /\ bq_queue = << >>
    /\ bq_unfinished = 0
    /\ bq_next = 1
    /\ bq_got = << >>
    /\ bq_result = "none"
    /\ bq_acks = 0

\* put(item, block=True, timeout=t)
BQ_Put ==
    /\ bq_next <= BQItems
    /\ IF QFull(bq_queue, BQCap)
       THEN /\ bq_result' = "Full"
            /\ UNCHANGED <<bq_queue, bq_unfinished, bq_next>>
       ELSE /\ bq_queue' = QPut(bq_queue, bq_next)
            /\ bq_unfinished' = QUnfinishedAfterPut(bq_unfinished)
            /\ bq_next' = bq_next + 1
            /\ bq_result' = "put"
    /\ UNCHANGED <<bq_got, bq_acks>>
    /\ UNCHANGED bqOthers

\* get(block=True, timeout=t)
BQ_Get ==
    /\ IF Len(bq_queue) = 0
       THEN /\ bq_result' = "Empty"
            /\ UNCHANGED <<bq_queue, bq_unfinished, bq_got>>
       ELSE /\ bq_got' = Append(bq_got, QGet(bq_queue).item)
            /\ bq_queue' = QGet(bq_queue).rest
            /\ bq_unfinished' = QUnfinishedAfterGet(bq_unfinished)
            /\ bq_result' = "get"
    /\ UNCHANGED <<bq_next, bq_acks>>
    /\ UNCHANGED bqOthers

\* task_done()
BQ_TaskDone ==
    /\ IF QTaskDoneFails(bq_unfinished)
       THEN /\ bq_result' = "ValueError"
            /\ UNCHANGED <<bq_unfinished, bq_acks>>
       ELSE /\ bq_unfinished' = QUnfinishedAfterTaskDone(bq_unfinished)
            /\ bq_acks' = bq_acks + 1
            /\ bq_result' = "task_done"
    /\ UNCHANGED <<bq_queue, bq_next, bq_got>>
    /\ UNCHANGED bqOthers

\* join() returning to its caller
BQ_Join ==
    /\ QJoinReturns(bq_unfinished)
    /\ bq_result' = "joined"
    /\ UNCHANGED <<bq_queue, bq_unfinished, bq_next, bq_got, bq_acks>>
    /\ UNCHANGED bqOthers

BQ_Next == BQ_Put \/ BQ_Get \/ BQ_TaskDone \/ BQ_Join

(***************************************************************************)
(* message_passing_example                                                 *)
(***************************************************************************)

BUS_maxsize == 0        \* queue.Queue(): no maxsize, an unbounded queue
BUS_requests == 3       \* service_a: for i in range(3)
BUS_notifications == 2  \* service_b: for i in range(2)

\* Message(msg_type, content, sender); the content is "... #n".
Message(msg_type, n, sender) == [msg_type |-> msg_type, n |-> n, sender |-> sender]

exit_message == Message("EXIT", 0, "Main")

BUS_Init ==
    /\ bus_queue = << >>
    /\ bus_unfinished = 0
    /\ bus_main = "construct"
    /\ bus_handler = "idle"
    /\ bus_a = "idle"
    /\ bus_ai = 0
    /\ bus_b = "idle"
    /\ bus_bi = 0
    /\ bus_enq = << >>
    /\ bus_handled = << >>
    /\ bus_acks = 0

\* message_bus.put(msg) without a timeout: the caller waits while the queue
\* is full, then the message is stored.
BUS_Put(msg) ==
    /\ ~QFull(bus_queue, BUS_maxsize)
    /\ bus_queue' = QPut(bus_queue, msg)
    /\ bus_unfinished' = QUnfinishedAfterPut(bus_unfinished)
    /\ bus_enq' = Append(bus_enq, msg)

\* if message.msg_type == "EXIT": the handler's position after a get.
BUS_AfterGetIgnoresExit(msg) == "task_done"
BUS_AfterGet(msg) == IF msg.msg_type = "EXIT" THEN "exit_task_done" ELSE "task_done"

\* The handler's position after the task_done of the EXIT branch (break) and
\* after the task_done that ends a pass of the loop (while True).
BUS_AfterExitTaskDoneNoBreak == "get"
BUS_AfterExitTaskDone == "break"

BUS_AfterTaskDone == "get"

\* message_bus = queue.Queue(): an exception of the constructor ends the
\* example before any thread exists.
BUS_MainConstruct ==
    /\ bus_main = "construct"
    /\ bus_main' = IF QInitRejects(BUS_maxsize) THEN "crashed" ELSE "start_handler"
    /\ UNCHANGED <<bus_queue, bus_unfinished, bus_handler, bus_a, bus_ai, bus_b,
                   bus_bi, bus_enq, bus_handled, bus_acks>>
    /\ UNCHANGED busOthers

\* handler_thread.start()
BUS_MainStartHandler ==
    /\ bus_main = "start_handler"
    /\ bus_main' = "start_a"
    /\ bus_handler' = "get"
    /\ UNCHANGED <<bus_queue, bus_unfinished, bus_a, bus_ai, bus_b, bus_bi,
                   bus_enq, bus_handled, bus_acks>>
    /\ UNCHANGED busOthers

\* service_a_thread.start()
BUS_MainStartA ==
    /\ bus_main = "start_a"
    /\ bus_main' = "start_b"
    /\ bus_a' = IF 0 < BUS_requests THEN "put" ELSE "done"
    /\ UNCHANGED <<bus_queue, bus_unfinished, bus_handler, bus_ai, bus_b, bus_bi,
                   bus_enq, bus_handled, bus_acks>>
    /\ UNCHANGED busOthers

\* service_b_thread.start()
BUS_MainStartB ==
    /\ bus_main = "start_b"
    /\ bus_main' = "join_a"
    /\ bus_b' = IF 0 < BUS_notifications THEN "put" ELSE "done"
    /\ UNCHANGED <<bus_queue, bus_unfinished, bus_handler, bus_a, bus_ai, bus_bi,
                   bus_enq, bus_handled, bus_acks>>
    /\ UNCHANGED busOthers

\* service_a_thread.join()
BUS_MainJoinA ==
    /\ bus_main = "join_a"
    /\ bus_a = "done"
    /\ bus_main' = "join_b"
    /\ UNCHANGED <<bus_queue, bus_unfinished, bus_handler, bus_a, bus_ai, bus_b,
                   bus_bi, bus_enq, bus_handled, bus_acks>>
    /\ UNCHANGED busOthers

\* service_b_thread.join()
BUS_MainJoinB ==
    /\ bus_main = "join_b"
    /\ bus_b = "done"
    /\ bus_main' = "put_exit"
    /\ UNCHANGED <<bus_queue, bus_unfinished, bus_handler, bus_a, bus_ai, bus_b,
                   bus_bi, bus_enq, bus_handled, bus_acks>>
    /\ UNCHANGED busOthers

\* message_bus.put(exit_message)
BUS_MainPutExit ==
    /\ bus_main = "put_exit"
    /\ BUS_Put(exit_message)
    /\ bus_main' = "bus_join"
    /\ UNCHANGED <<bus_handler, bus_a, bus_ai, bus_b, bus_bi, bus_handled, bus_acks>>
    /\ UNCHANGED busOthers

\* message_bus.join() returns; the handler thread is a daemon and is not
\* joined.
BUS_MainBusJoin ==
    /\ bus_main = "bus_join"
    /\ QJoinReturns(bus_unfinished)
    /\ bus_main' = "done"
    /\ UNCHANGED <<bus_queue, bus_unfinished, bus_handler, bus_a, bus_ai, bus_b,
                   bus_bi, bus_enq, bus_handled, bus_acks>>
    /\ UNCHANGED busOthers

\* One pass of service_a's loop: put a REQUEST numbered i+1.
BUS_ServiceAPut ==
    /\ bus_a = "put"
    /\ BUS_Put(Message("REQUEST", bus_ai + 1, "ServiceA"))
    /\ bus_ai' = bus_ai + 1
    /\ bus_a' = IF bus_ai + 1 < BUS_requests THEN "put" ELSE "done"
    /\ UNCHANGED <<bus_main, bus_handler, bus_b, bus_bi, bus_handled, bus_acks>>
    /\ UNCHANGED busOthers

\* One pass of service_b's loop: put a NOTIFICATION numbered i+1.
BUS_ServiceBPut ==
    /\ bus_b = "put"
    /\ BUS_Put(Message("NOTIFICATION", bus_bi + 1, "ServiceB"))
    /\ bus_bi' = bus_bi + 1
    /\ bus_b' = IF bus_bi + 1 < BUS_notifications THEN "put" ELSE "done"
    /\ UNCHANGED <<bus_main, bus_handler, bus_a, bus_ai, bus_handled, bus_acks>>
    /\ UNCHANGED busOthers

\* message = message_bus.get(), without a timeout: the handler waits while
\* the queue is empty.  An EXIT message goes to the exit branch; any other
\* message is processed (printed) before its task_done.
BUS_HandlerGet ==
    /\ bus_handler = "get"
    /\ Len(bus_queue) > 0
    /\ bus_queue' = QGet(bus_queue).rest
    /\ bus_unfinished' = QUnfinishedAfterGet(bus_unfinished)
    /\ bus_handler' = BUS_AfterGet(QGet(bus_queue).item)
    /\ bus_handled' = IF BUS_AfterGet(QGet(bus_queue).item) = "exit_task_done"
                        THEN bus_handled
                        ELSE Append(bus_handled, QGet(bus_queue).item)
    /\ UNCHANGED <<bus_main, bus_a, bus_ai, bus_b, bus_bi, bus_enq, bus_acks>>
    /\ UNCHANGED busOthers

\* message_bus.task_done() at the end of a pass; a ValueError ends the thread.
BUS_HandlerTaskDone ==
    /\ bus_handler = "task_done"
    /\ IF QTaskDoneFails(bus_unfinished)
       THEN /\ bus_handler' = "crashed"
            /\ UNCHANGED <<bus_unfinished, bus_acks>>
       ELSE /\ bus_unfinished' = QUnfinishedAfterTaskDone(bus_unfinished)
            /\ bus_acks' = bus_acks + 1
            /\ bus_handler' = BUS_AfterTaskDone
    /\ UNCHANGED <<bus_queue, bus_main, bus_a, bus_ai, bus_b, bus_bi, bus_enq,
                   bus_handled>>
    /\ UNCHANGED busOthers

\* message_bus.task_done() of the EXIT branch.
BUS_HandlerExitTaskDone ==
    /\ bus_handler = "exit_task_done"
    /\ IF QTaskDoneFails(bus_unfinished)
       THEN /\ bus_handler' = "crashed"
            /\ UNCHANGED <<bus_unfinished, bus_acks>>
       ELSE /\ bus_unfinished' = QUnfinishedAfterTaskDone(bus_unfinished)
            /\ bus_acks' = bus_acks + 1
            /\ bus_handler' = BUS_AfterExitTaskDone
    /\ UNCHANGED <<bus_queue, bus_main, bus_a, bus_ai, bus_b, bus_bi, bus_enq,
                   bus_handled>>
    /\ UNCHANGED busOthers

\* break: the handler leaves its loop and the thread ends.
BUS_HandlerBreak ==
    /\ bus_handler = "break"
    /\ bus_handler' = "done"
    /\ UNCHANGED <<bus_queue, bus_unfinished, bus_main, bus_a, bus_ai, bus_b,
                   bus_bi, bus_enq, bus_handled, bus_acks>>
    /\ UNCHANGED busOthers

BUS_Main ==
    \/ BUS_MainConstruct
    \/ BUS_MainStartHandler
    \/ BUS_MainStartA
    \/ BUS_MainStartB
    \/ BUS_MainJoinA
    \/ BUS_MainJoinB
    \/ BUS_MainPutExit
    \/ BUS_MainBusJoin

BUS_Handler ==
    \/ BUS_HandlerGet
    \/ BUS_HandlerTaskDone
    \/ BUS_HandlerExitTaskDone
    \/ BUS_HandlerBreak

BUS_Next == BUS_Main \/ BUS_ServiceAPut \/ BUS_ServiceBPut \/ BUS_Handler

(***************************************************************************)
(* queue.PriorityQueue: a list kept as a binary heap by heapq.  An entry   *)
(* is the tuple (priority, message) the caller put; the model writes it    *)
(* <<priority, message, seq>>, where message is the rank of the message    *)
(* string in Python's string order and seq, the number of the insertion,   *)
(* is history only: no comparison reads it.  Positions are 0-based as in   *)
(* heapq; heap[pos + 1] is Python's heap[pos].                             *)
(***************************************************************************)

\* Python's tuple comparison (priority, message) < (priority, message).
TupleLTPriorityOnly(a, b) == a[1] < b[1]
TupleLT(a, b) == a[1] < b[1] \/ (a[1] = b[1] /\ a[2] < b[2])

\* heapq._siftdown: move newitem, taken from heap[pos], up towards startpos
\* while it is smaller than its parent.
RECURSIVE SiftdownLoop(_, _, _, _)
SiftdownLoop(heap, startpos, pos, newitem) ==
    IF pos > startpos
    THEN LET parentpos == (pos - 1) \div 2
             parent == heap[parentpos + 1]
         IN  IF TupleLT(newitem, parent)
             THEN SiftdownLoop([heap EXCEPT ![pos + 1] = parent], startpos,
                               parentpos, newitem)
             ELSE [heap EXCEPT ![pos + 1] = newitem]
    ELSE [heap EXCEPT ![pos + 1] = newitem]

Siftdown(heap, startpos, pos) == SiftdownLoop(heap, startpos, pos, heap[pos + 1])

\* The while-loop of heapq._siftup: bubble the smaller child up until a
\* leaf is reached; the heap and the leaf position reached.
RECURSIVE SiftupLoop(_, _, _)
SiftupLoop(heap, pos, childpos) ==
    IF childpos < Len(heap)
    THEN LET rightpos == childpos + 1
             c == IF rightpos < Len(heap)
                     /\ ~TupleLT(heap[childpos + 1], heap[rightpos + 1])
                  THEN rightpos
                  ELSE childpos
         IN  SiftupLoop([heap EXCEPT ![pos + 1] = heap[c + 1]], c, 2 * c + 1)
    ELSE <<heap, pos>>

\* heapq._siftup
Siftup(heap, pos) ==
    LET newitem == heap[pos + 1]
        r == SiftupLoop(heap, pos, 2 * pos + 1)
    IN  Siftdown([r[1] EXCEPT ![r[2] + 1] = newitem], pos, r[2])

\* PriorityQueue._put: heappush(self.queue, item)
HeapPushAppendOnly(heap, item) == Append(heap, item)
HeapPush(heap, item) == Siftdown(Append(heap, item), 0, Len(heap))

\* PriorityQueue._get: heappop(self.queue), the item returned and the heap
\* left.
HeapPop(heap) ==
    LET lastelt == heap[Len(heap)]
        rest == SubSeq(heap, 1, Len(heap) - 1)
    IN  IF Len(rest) > 0
        THEN [item |-> rest[1], heap |-> Siftup([rest EXCEPT ![1] = lastelt], 0)]
        ELSE [item |-> lastelt, heap |-> rest]

(***************************************************************************)
(* priority_queue_example                                                  *)
(***************************************************************************)

PQ_maxsize == 0         \* queue.PriorityQueue(): unbounded

\* The (priority, message) pairs of priority_producer.  The five message
\* strings begin with U+666E, U+7D27, U+91CD, U+4F4E, U+4F8B: in string order
\* they rank 3, 4, 5, 1, 2.
messages_with_priority == << <<3, 3>>, <<1, 4>>, <<2, 5>>, <<5, 1>>, <<4, 2>> >>

\* Other lists the queue is driven with: every list of up to PQMaxLen pairs
\* with priorities 1 .. PQMaxPriority and messages 1 .. PQMaxMessage.
PQMaxLen == 2
PQMaxPriority == 2
PQMaxMessage == 2

PQ_Pairs == (1 .. PQMaxPriority) \X (1 .. PQMaxMessage)

PQ_Inputs ==
    {messages_with_priority}
        \cup UNION {[1 .. n -> PQ_Pairs] : n \in 1 .. PQMaxLen}

PQ_InitWith(input) ==
    /\ pq_input = input
    /\ pq_heap = << >>
    /\ pq_unfinished = 0
    /\ pq_main = "start_producer"
    /\ pq_prod = "idle"
    /\ pq_pi = 0
    /\ pq_cons = "idle"
    /\ pq_log = << >>

PQ_Init == PQ_InitWith(messages_with_priority)

\* while not priority_queue.empty(): the consumer's position after the test.
PQ_ConsumerAfterCheck(heap) == IF Len(heap) > 0 THEN "get" ELSE "done"

\* producer_thread.start()
PQ_MainStartProducer ==
    /\ pq_main = "start_producer"
    /\ pq_main' = "start_consumer"
    /\ pq_prod' = IF Len(pq_input) > 0 THEN "put" ELSE "done"
    /\ UNCHANGED <<pq_input, pq_heap, pq_unfinished, pq_pi, pq_cons, pq_log>>
    /\ UNCHANGED pqOthers

\* consumer_thread.start()
PQ_MainStartConsumer ==
    /\ pq_main = "start_consumer"
    /\ pq_main' = "join_producer"
    /\ pq_cons' = "check"
    /\ UNCHANGED <<pq_input, pq_heap, pq_unfinished, pq_prod, pq_pi, pq_log>>
    /\ UNCHANGED pqOthers

\* producer_thread.join()
PQ_MainJoinProducer ==
    /\ pq_main = "join_producer"
    /\ pq_prod = "done"
    /\ pq_main' = "join_consumer"
    /\ UNCHANGED <<pq_input, pq_heap, pq_unfinished, pq_prod, pq_pi, pq_cons, pq_log>>
    /\ UNCHANGED pqOthers

\* consumer_thread.join()
PQ_MainJoinConsumer ==
    /\ pq_main = "join_consumer"
    /\ pq_cons \in {"done", "crashed"}
    /\ pq_main' = "done"
    /\ UNCHANGED <<pq_input, pq_heap, pq_unfinished, pq_prod, pq_pi, pq_cons, pq_log>>
    /\ UNCHANGED pqOthers

\* One pass of the producer's loop: priority_queue.put((priority, message)).
PQ_ProducerPut ==
    /\ pq_prod = "put"
    /\ ~QFull(pq_heap, PQ_maxsize)
    /\ pq_heap' = HeapPush(pq_heap, <<pq_input[pq_pi + 1][1], pq_input[pq_pi + 1][2],
                                      pq_pi + 1>>)
    /\ pq_unfinished' = QUnfinishedAfterPut(pq_unfinished)
    /\ pq_pi' = pq_pi + 1
    /\ pq_prod' = IF pq_pi + 1 < Len(pq_input) THEN "put" ELSE "done"
    /\ UNCHANGED <<pq_input, pq_main, pq_cons, pq_log>>
    /\ UNCHANGED pqOthers

\* while not priority_queue.empty()
PQ_ConsumerCheck ==
    /\ pq_cons = "check"
    /\ pq_cons' = PQ_ConsumerAfterCheck(pq_heap)
    /\ UNCHANGED <<pq_input, pq_heap, pq_unfinished, pq_main, pq_prod, pq_pi, pq_log>>
    /\ UNCHANGED pqOthers

\* priority, message = priority_queue.get(), without a timeout.
PQ_ConsumerGet ==
    /\ pq_cons = "get"
    /\ Len(pq_heap) > 0
    /\ pq_log' = Append(pq_log, [item |-> HeapPop(pq_heap).item, before |-> pq_heap])
    /\ pq_heap' = HeapPop(pq_heap).heap
    /\ pq_unfinished' = QUnfinishedAfterGet(pq_unfinished)
    /\ pq_cons' = "task_done"
    /\ UNCHANGED <<pq_input, pq_main, pq_prod, pq_pi>>
    /\ UNCHANGED pqOthers

\* priority_queue.task_done()
PQ_ConsumerTaskDone ==
    /\ pq_cons = "task_done"
    /\ IF QTaskDoneFails(pq_unfinished)
       THEN /\ pq_cons' = "crashed"
            /\ UNCHANGED pq_unfinished
       ELSE /\ pq_unfinished' = QUnfinishedAfterTaskDone(pq_unfinished)
            /\ pq_cons' = "check"
    /\ UNCHANGED <<pq_input, pq_heap, pq_main, pq_prod, pq_pi, pq_log>>
    /\ UNCHANGED pqOthers

PQ_Main ==
    \/ PQ_MainStartProducer
    \/ PQ_MainStartConsumer
    \/ PQ_MainJoinProducer
    \/ PQ_MainJoinConsumer

PQ_Consumer == PQ_ConsumerCheck \/ PQ_ConsumerGet \/ PQ_ConsumerTaskDone

PQ_Next == PQ_Main \/ PQ_ProducerPut \/ PQ_Consumer

(***************************************************************************)
(* semaphore_example                                                       *)
(***************************************************************************)

SEM_permits == 2        \* threading.Semaphore(2)
SEM_threads == 5        \* for i in range(5)

SEM_Ids == 0 .. (SEM_threads - 1)

\* Semaphore.acquire: waits while _value == 0, then takes a permit.
SemCanAcquireAtZero(value) == value >= 0
SemCanAcquire(value) == value > 0

SemAfterAcquire(value) == value - 1

\* Semaphore.release: gives a permit back (threading.Semaphore has no cap).
SemAfterReleaseTwice(value) == value + 2
SemAfterRelease(value) == value + 1

SEM_Init ==
    /\ sem_value = SEM_permits
    /\ sem_main = "start"
    /\ sem_k = 0
    /\ sem_thread = [t \in SEM_Ids |-> "idle"]

\* for i in range(5): thread.start()
SEM_MainStart ==
    /\ sem_main = "start"
    /\ sem_k < SEM_threads
    /\ sem_thread' = [sem_thread EXCEPT ![sem_k] = "acquire"]
    /\ sem_k' = IF sem_k + 1 < SEM_threads THEN sem_k + 1 ELSE 0
    /\ sem_main' = IF sem_k + 1 < SEM_threads THEN "start" ELSE "join"
    /\ UNCHANGED sem_value
    /\ UNCHANGED semOthers

\* for thread in threads: thread.join()
SEM_MainJoin ==
    /\ sem_main = "join"
    /\ sem_thread[sem_k] = "done"
    /\ sem_k' = IF sem_k + 1 < SEM_threads THEN sem_k + 1 ELSE 0
    /\ sem_main' = IF sem_k + 1 < SEM_threads THEN "join" ELSE "done"
    /\ UNCHANGED <<sem_value, sem_thread>>
    /\ UNCHANGED semOthers

\* semaphore.acquire() returning in thread t
SEM_Acquire(t) ==
    /\ sem_thread[t] = "acquire"
    /\ SemCanAcquire(sem_value)
    /\ sem_value' = SemAfterAcquire(sem_value)
    /\ sem_thread' = [sem_thread EXCEPT ![t] = "holding"]
    /\ UNCHANGED <<sem_main, sem_k>>
    /\ UNCHANGED semOthers

\* finally: semaphore.release() in thread t, which then ends
SEM_Release(t) ==
    /\ sem_thread[t] = "holding"
    /\ sem_value' = SemAfterRelease(sem_value)
    /\ sem_thread' = [sem_thread EXCEPT ![t] = "done"]
    /\ UNCHANGED <<sem_main, sem_k>>
    /\ UNCHANGED semOthers

SEM_Next ==
    \/ SEM_MainStart
    \/ SEM_MainJoin
    \/ \E t \in SEM_Ids : SEM_Acquire(t)
    \/ \E t \in SEM_Ids : SEM_Release(t)

(***************************************************************************)
(* event_example                                                           *)
(***************************************************************************)

EV_waiters == 3         \* for i in range(3)

EV_Ids == 0 .. (EV_waiters - 1)

\* Event.set: notify_all wakes every thread blocked in wait().
EvNotifiedOne(blocked) == IF blocked = {} THEN {} ELSE {CHOOSE w \in blocked : TRUE}
EvNotified(blocked) == blocked

\* Event.wait: returns at once when the flag is set; otherwise blocks until
\* notified.
EvWaitReturnsAlways(flag) == TRUE
EvWaitReturnsAtOnce(flag) == flag

EV_Init ==
    /\ ev_flag = FALSE
    /\ ev_blocked = {}
    /\ ev_main = "start_waiters"
    /\ ev_k = 0
    /\ ev_waiter = [w \in EV_Ids |-> "idle"]
    /\ ev_setter = "idle"
    /\ ev_how = [w \in EV_Ids |-> "none"]

\* for i in range(3): thread.start()
EV_MainStartWaiter ==
    /\ ev_main = "start_waiters"
    /\ ev_waiter' = [ev_waiter EXCEPT ![ev_k] = "wait"]
    /\ ev_k' = IF ev_k + 1 < EV_waiters THEN ev_k + 1 ELSE 0
    /\ ev_main' = IF ev_k + 1 < EV_waiters THEN "start_waiters" ELSE "start_setter"
    /\ UNCHANGED <<ev_flag, ev_blocked, ev_setter, ev_how>>
    /\ UNCHANGED evOthers

\* setter_thread.start()
EV_MainStartSetter ==
    /\ ev_main = "start_setter"
    /\ ev_setter' = "set"
    /\ ev_main' = "join_waiters"
    /\ UNCHANGED <<ev_flag, ev_blocked, ev_k, ev_waiter, ev_how>>
    /\ UNCHANGED evOthers

\* for thread in waiter_threads: thread.join()
EV_MainJoinWaiter ==
    /\ ev_main = "join_waiters"
    /\ ev_waiter[ev_k] = "done"
    /\ ev_k' = IF ev_k + 1 < EV_waiters THEN ev_k + 1 ELSE 0
    /\ ev_main' = IF ev_k + 1 < EV_waiters THEN "join_waiters" ELSE "join_setter"
    /\ UNCHANGED <<ev_flag, ev_blocked, ev_waiter, ev_setter, ev_how>>
    /\ UNCHANGED evOthers

\* setter_thread.join()
EV_MainJoinSetter ==
    /\ ev_main = "join_setter"
    /\ ev_setter = "done"
    /\ ev_main' = "done"
    /\ UNCHANGED <<ev_flag, ev_blocked, ev_k, ev_waiter, ev_setter, ev_how>>
    /\ UNCHANGED evOthers

\* event.wait() called by waiter w: it returns at once, or w blocks.
EV_WaiterWait(w) ==
    /\ ev_waiter[w] = "wait"
    /\ IF EvWaitReturnsAtOnce(ev_flag)
       THEN /\ ev_waiter' = [ev_waiter EXCEPT ![w] = "proceed"]
            /\ ev_how' = [ev_how EXCEPT ![w] = IF ev_flag THEN "at_once" ELSE "unsignaled"]
            /\ UNCHANGED ev_blocked
       ELSE /\ ev_waiter' = [ev_waiter EXCEPT ![w] = "blocked"]
            /\ ev_blocked' = ev_blocked \cup {w}
            /\ UNCHANGED ev_how
    /\ UNCHANGED <<ev_flag, ev_main, ev_k, ev_setter>>
    /\ UNCHANGED evOthers

\* Waiter w, notified, returns from event.wait().
EV_WaiterWake(w) ==
    /\ ev_waiter[w] = "blocked"
    /\ w \notin ev_blocked
    /\ ev_waiter' = [ev_waiter EXCEPT ![w] = "proceed"]
    /\ ev_how' = [ev_how EXCEPT ![w] = IF ev_flag THEN "woken" ELSE "unsignaled"]
    /\ UNCHANGED <<ev_flag, ev_blocked, ev_main, ev_k, ev_setter>>
    /\ UNCHANGED evOthers

\* Waiter w prints that it continues, and ends.
EV_WaiterProceed(w) ==
    /\ ev_waiter[w] = "proceed"
    /\ ev_waiter' = [ev_waiter EXCEPT ![w] = "done"]
    /\ UNCHANGED <<ev_flag, ev_blocked, ev_main, ev_k, ev_setter, ev_how>>
    /\ UNCHANGED evOthers

\* event.set() in the setter thread, which then ends.
EV_SetterSet ==
    /\ ev_setter = "set"
    /\ ev_flag' = TRUE
    /\ ev_blocked' = ev_blocked \ EvNotified(ev_blocked)
    /\ ev_setter' = "done"
    /\ UNCHANGED <<ev_main, ev_k, ev_waiter, ev_how>>
    /\ UNCHANGED evOthers

EV_Main ==
    \/ EV_MainStartWaiter
    \/ EV_MainStartSetter
    \/ EV_MainJoinWaiter
    \/ EV_MainJoinSetter

EV_Waiter(w) == EV_WaiterWait(w) \/ EV_WaiterWake(w) \/ EV_WaiterProceed(w)

EV_Next == EV_Main \/ EV_SetterSet \/ \E w \in EV_Ids : EV_Waiter(w)

(***************************************************************************)
(* threading.Condition: wait() puts the caller at the end of _waiters,     *)
(* releases the lock and blocks; notify() takes the oldest waiter off      *)
(* _waiters and unblocks it; the woken thread takes the lock again before  *)
(* wait() returns.                                                         *)
(***************************************************************************)

\* Condition.notify(): the waiters woken and the waiters left.
CondNotifyNobody(waiters) == [woken |-> {}, rest |-> waiters]
CondNotify(waiters) ==
    IF Len(waiters) = 0
    THEN [woken |-> {}, rest |-> waiters]
    ELSE [woken |-> {Head(waiters)}, rest |-> Tail(waiters)]

(***************************************************************************)
(* condition_example                                                       *)
(***************************************************************************)

MAX_ITEMS == 5          \* MAX_ITEMS = 5
COND_items == 10        \* producer: for i in range(10)
COND_target == 10       \* consumer: while items_consumed < 10

COND_Threads == {"producer", "consumer"}

COND_Init ==
    /\ cond_owner = "none"
    /\ cond_waiters = << >>
    /\ cond_queue = << >>
    /\ cond_main = "start_producer"
    /\ cond_pc = [t \in COND_Threads |-> "idle"]
    /\ cond_i = 0
    /\ cond_consumed = 0
    /\ cond_log = << >>
    /\ cond_waited = {}

\* while len(queue) >= MAX_ITEMS: the producer waits.
COND_ProducerMustWait(queue) == Len(queue) >= MAX_ITEMS

\* while len(queue) == 0: the consumer waits.
COND_ConsumerMustWait(queue) == Len(queue) = 0

\* The position of a thread whose wait() has returned: the while-loop tests
\* its condition again.
COND_AfterWaitNoRecheck == "body"
COND_AfterWait == "check"

\* for i in range(10) and while items_consumed < 10: the position after a
\* pass of the loop.
COND_ProducerAfter(i) == IF i + 1 < COND_items THEN "acquire" ELSE "done"

COND_ConsumerAfter(n) == IF n < COND_target THEN "acquire" ELSE "done"

\* producer_thread.start()
COND_MainStartProducer ==
    /\ cond_main = "start_producer"
    /\ cond_main' = "start_consumer"
    /\ cond_pc' = [cond_pc EXCEPT !["producer"] =
                       IF 0 < COND_items THEN "acquire" ELSE "done"]
    /\ UNCHANGED <<cond_owner, cond_waiters, cond_queue, cond_i, cond_consumed,
                   cond_log, cond_waited>>
    /\ UNCHANGED condOthers

\* consumer_thread.start()
COND_MainStartConsumer ==
    /\ cond_main = "start_consumer"
    /\ cond_main' = "join_producer"
    /\ cond_pc' = [cond_pc EXCEPT !["consumer"] = COND_ConsumerAfter(cond_consumed)]
    /\ UNCHANGED <<cond_owner, cond_waiters, cond_queue, cond_i, cond_consumed,
                   cond_log, cond_waited>>
    /\ UNCHANGED condOthers

\* producer_thread.join()
COND_MainJoinProducer ==
    /\ cond_main = "join_producer"
    /\ cond_pc["producer"] = "done"
    /\ cond_main' = "join_consumer"
    /\ UNCHANGED <<cond_owner, cond_waiters, cond_queue, cond_pc, cond_i,
                   cond_consumed, cond_log, cond_waited>>
    /\ UNCHANGED condOthers

\* consumer_thread.join()
COND_MainJoinConsumer ==
    /\ cond_main = "join_consumer"
    /\ cond_pc["consumer"] \in {"done", "crashed"}
    /\ cond_main' = "done"
    /\ UNCHANGED <<cond_owner, cond_waiters, cond_queue, cond_pc, cond_i,
                   cond_consumed, cond_log, cond_waited>>
    /\ UNCHANGED condOthers

\* with condition: thread t takes the lock.
COND_Acquire(t) ==
    /\ cond_pc[t] = "acquire"
    /\ cond_owner = "none"
    /\ cond_owner' = t
    /\ cond_pc' = [cond_pc EXCEPT ![t] = "check"]
    /\ UNCHANGED <<cond_waiters, cond_queue, cond_main, cond_i, cond_consumed,
                   cond_log, cond_waited>>
    /\ UNCHANGED condOthers

\* The test of thread t's while-loop; when it holds, condition.wait()
\* releases the lock and t blocks.
COND_Check(t) ==
    /\ cond_pc[t] = "check"
    /\ cond_owner = t
    /\ IF (IF t = "producer" THEN COND_ProducerMustWait(cond_queue)
                             ELSE COND_ConsumerMustWait(cond_queue))
       THEN /\ cond_waiters' = Append(cond_waiters, t)
            /\ cond_owner' = "none"
            /\ cond_pc' = [cond_pc EXCEPT ![t] = "waiting"]
            /\ cond_waited' = cond_waited \cup {t}
       ELSE /\ cond_pc' = [cond_pc EXCEPT ![t] = "body"]
            /\ UNCHANGED <<cond_waiters, cond_owner, cond_waited>>
    /\ UNCHANGED <<cond_queue, cond_main, cond_i, cond_consumed, cond_log>>
    /\ UNCHANGED condOthers

\* Thread t, notified, takes the lock again and wait() returns.
COND_Reacquire(t) ==
    /\ cond_pc[t] = "woken"
    /\ cond_owner = "none"
    /\ cond_owner' = t
    /\ cond_pc' = [cond_pc EXCEPT ![t] = COND_AfterWait]
    /\ UNCHANGED <<cond_waiters, cond_queue, cond_main, cond_i, cond_consumed,
                   cond_log, cond_waited>>
    /\ UNCHANGED condOthers

\* The positions after a notify(): the woken waiters leave "waiting", the
\* notifying thread t goes to next.
COND_Woken(t, next) ==
    [u \in COND_Threads |->
        IF u = t THEN next
        ELSE IF u \in CondNotify(cond_waiters).woken THEN "woken"
        ELSE cond_pc[u]]

\* The producer's body: queue.append(item), condition.notify(), and the end
\* of the with block releases the lock.
COND_ProducerAppend ==
    /\ cond_pc["producer"] = "body"
    /\ cond_owner = "producer"
    /\ cond_queue' = Append(cond_queue, cond_i)
    /\ cond_waiters' = CondNotify(cond_waiters).rest
    /\ cond_pc' = COND_Woken("producer", COND_ProducerAfter(cond_i))
    /\ cond_i' = cond_i + 1
    /\ cond_owner' = "none"
    /\ UNCHANGED <<cond_main, cond_consumed, cond_log, cond_waited>>
    /\ UNCHANGED condOthers

\* The consumer's body: queue.pop(0), items_consumed += 1,
\* condition.notify(), and the end of the with block releases the lock.
\* pop(0) on an empty list raises IndexError, which ends the thread (the
\* with block still releases the lock).
COND_ConsumerPop ==
    /\ cond_pc["consumer"] = "body"
    /\ cond_owner = "consumer"
    /\ IF Len(cond_queue) = 0
       THEN /\ cond_pc' = [cond_pc EXCEPT !["consumer"] = "crashed"]
            /\ UNCHANGED <<cond_queue, cond_waiters, cond_consumed, cond_log>>
       ELSE /\ cond_log' = Append(cond_log, Head(cond_queue))
            /\ cond_queue' = Tail(cond_queue)
            /\ cond_consumed' = cond_consumed + 1
            /\ cond_waiters' = CondNotify(cond_waiters).rest
            /\ cond_pc' = COND_Woken("consumer", COND_ConsumerAfter(cond_consumed + 1))
    /\ cond_owner' = "none"
    /\ UNCHANGED <<cond_main, cond_i, cond_waited>>
    /\ UNCHANGED condOthers

\* condition.wait() of thread t returning without a notify (a spurious
\* wake-up): t leaves _waiters and goes for the lock.
COND_SpuriousWake(t) ==
    /\ cond_pc[t] = "waiting"
    /\ cond_waiters' = SelectSeq(cond_waiters, LAMBDA u : u # t)
    /\ cond_pc' = [cond_pc EXCEPT ![t] = "woken"]
    /\ UNCHANGED <<cond_owner, cond_queue, cond_main, cond_i, cond_consumed,
                   cond_log, cond_waited>>
    /\ UNCHANGED condOthers

COND_Main ==
    \/ COND_MainStartProducer
    \/ COND_MainStartConsumer
    \/ COND_MainJoinProducer
    \/ COND_MainJoinConsumer

COND_Producer ==
    \/ COND_Acquire("producer")
    \/ COND_Check("producer")
    \/ COND_Reacquire("producer")
    \/ COND_ProducerAppend

COND_Consumer ==
    \/ COND_Acquire("consumer")
    \/ COND_Check("consumer")
    \/ COND_Reacquire("consumer")
    \/ COND_ConsumerPop

COND_Next == COND_Main \/ COND_Producer \/ COND_Consumer

COND_NextSpurious == COND_Next \/ \E t \in COND_Threads : COND_SpuriousWake(t)

(***************************************************************************)
(* multiprocessing.Pipe(): two connected Connection objects.  send() writes *)
(* the pickled object to the operating system's buffer of the connection   *)
(* and returns; recv() blocks until a whole object can be read and returns *)
(* the oldest one.  Nothing in send() waits for the peer's recv().         *)
(***************************************************************************)

\* Connection.send: the messages in flight after the send.
PipeSendDrops(buf, msg) == buf
PipeSend(buf, msg) == Append(buf, msg)

\* Connection.recv: blocks while nothing is in flight; otherwise the object
\* returned and the messages left in flight.
PipeRecvBlocks(buf) == Len(buf) = 0
PipeRecv(buf) == [item |-> Head(buf), rest |-> Tail(buf)]

(***************************************************************************)
(* pipe_example                                                            *)
(***************************************************************************)

PIPE_serverRounds == 5  \* pipe_server: for i in range(5)
PIPE_clientRounds == 5  \* pipe_client: for i in range(5)

PIPE_Threads == {"server", "client"}

\* message = f"客户端请求 #{i+1}" and response = f"已处理: {message} ({i+1})"
PIPE_ResponseToNothing(message, i) == [kind |-> "response", n |-> i + 1, of |-> 0]
PIPE_Request(i) == [kind |-> "request", n |-> i + 1, of |-> 0]
PIPE_Response(message, i) == [kind |-> "response", n |-> i + 1, of |-> message.n]

PIPE_Init ==
    /\ pipe_toParent = << >>
    /\ pipe_toChild = << >>
    /\ pipe_main = "start_server"
    /\ pipe_pc = [t \in PIPE_Threads |-> "idle"]
    /\ pipe_i = [t \in PIPE_Threads |-> 0]
    /\ pipe_message = PIPE_Request(0)
    /\ pipe_response = PIPE_Response(PIPE_Request(0), 0)
    /\ pipe_sent = [t \in PIPE_Threads |-> << >>]
    /\ pipe_got = [t \in PIPE_Threads |-> << >>]

\* for i in range(5): a thread's position at the top of its loop.
PIPE_ServerAfter(i) == IF i < PIPE_serverRounds THEN "recv" ELSE "done"
PIPE_ClientAfter(i) == IF i < PIPE_clientRounds THEN "send" ELSE "done"

\* server_thread.start()
PIPE_MainStartServer ==
    /\ pipe_main = "start_server"
    /\ pipe_main' = "start_client"
    /\ pipe_pc' = [pipe_pc EXCEPT !["server"] = PIPE_ServerAfter(0)]
    /\ UNCHANGED <<pipe_toParent, pipe_toChild, pipe_i, pipe_message,
                   pipe_response, pipe_sent, pipe_got>>
    /\ UNCHANGED pipeOthers

\* client_thread.start()
PIPE_MainStartClient ==
    /\ pipe_main = "start_client"
    /\ pipe_main' = "join_server"
    /\ pipe_pc' = [pipe_pc EXCEPT !["client"] = PIPE_ClientAfter(0)]
    /\ UNCHANGED <<pipe_toParent, pipe_toChild, pipe_i, pipe_message,
                   pipe_response, pipe_sent, pipe_got>>
    /\ UNCHANGED pipeOthers

\* server_thread.join()
PIPE_MainJoinServer ==
    /\ pipe_main = "join_server"
    /\ pipe_pc["server"] = "done"
    /\ pipe_main' = "join_client"
    /\ UNCHANGED <<pipe_toParent, pipe_toChild, pipe_pc, pipe_i, pipe_message,
                   pipe_response, pipe_sent, pipe_got>>
    /\ UNCHANGED pipeOthers

\* client_thread.join()
PIPE_MainJoinClient ==
    /\ pipe_main = "join_client"
    /\ pipe_pc["client"] = "done"
    /\ pipe_main' = "close_parent"
    /\ UNCHANGED <<pipe_toParent, pipe_toChild, pipe_pc, pipe_i, pipe_message,
                   pipe_response, pipe_sent, pipe_got>>
    /\ UNCHANGED pipeOthers

\* parent_conn.close()
PIPE_MainCloseParent ==
    /\ pipe_main = "close_parent"
    /\ pipe_main' = "close_child"
    /\ UNCHANGED <<pipe_toParent, pipe_toChild, pipe_pc, pipe_i, pipe_message,
                   pipe_response, pipe_sent, pipe_got>>
    /\ UNCHANGED pipeOthers

\* child_conn.close()
PIPE_MainCloseChild ==
    /\ pipe_main = "close_child"
    /\ pipe_main' = "done"
    /\ UNCHANGED <<pipe_toParent, pipe_toChild, pipe_pc, pipe_i, pipe_message,
                   pipe_response, pipe_sent, pipe_got>>
    /\ UNCHANGED pipeOthers

\* pipe_server: message = conn.recv() on parent_conn.
PIPE_ServerRecv ==
    /\ pipe_pc["server"] = "recv"
    /\ ~PipeRecvBlocks(pipe_toParent)
    /\ pipe_message' = PipeRecv(pipe_toParent).item
    /\ pipe_toParent' = PipeRecv(pipe_toParent).rest
    /\ pipe_got' = [pipe_got EXCEPT !["server"] = Append(@, PipeRecv(pipe_toParent).item)]
    /\ pipe_pc' = [pipe_pc EXCEPT !["server"] = "print"]
    /\ UNCHANGED <<pipe_toChild, pipe_main, pipe_i, pipe_response, pipe_sent>>
    /\ UNCHANGED pipeOthers

\* pipe_server: response = f"已处理: {message} ({i+1})"
PIPE_ServerFormat ==
    /\ pipe_pc["server"] = "format"
    /\ pipe_response' = PIPE_Response(pipe_message, pipe_i["server"])
    /\ pipe_pc' = [pipe_pc EXCEPT !["server"] = "send"]
    /\ UNCHANGED <<pipe_toParent, pipe_toChild, pipe_main, pipe_i, pipe_message,
                   pipe_sent, pipe_got>>
    /\ UNCHANGED pipeOthers

\* pipe_server: conn.send(response) on parent_conn.
PIPE_ServerSend ==
    /\ pipe_pc["server"] = "send"
    /\ pipe_toChild' = PipeSend(pipe_toChild, pipe_response)
    /\ pipe_sent' = [pipe_sent EXCEPT !["server"] = Append(@, pipe_response)]
    /\ pipe_pc' = [pipe_pc EXCEPT !["server"] = "sleep"]
    /\ UNCHANGED <<pipe_toParent, pipe_main, pipe_i, pipe_message,
                   pipe_response, pipe_got>>
    /\ UNCHANGED pipeOthers

\* pipe_client: conn.send(message) on child_conn.
PIPE_ClientSend ==
    /\ pipe_pc["client"] = "send"
    /\ pipe_toParent' = PipeSend(pipe_toParent, PIPE_Request(pipe_i["client"]))
    /\ pipe_sent' = [pipe_sent EXCEPT !["client"] = Append(@, PIPE_Request(pipe_i["client"]))]
    /\ pipe_pc' = [pipe_pc EXCEPT !["client"] = "print_sent"]
    /\ UNCHANGED <<pipe_toChild, pipe_main, pipe_i, pipe_message,
                   pipe_response, pipe_got>>
    /\ UNCHANGED pipeOthers

\* pipe_client: response = conn.recv() on child_conn.
PIPE_ClientRecv ==
    /\ pipe_pc["client"] = "recv"
    /\ ~PipeRecvBlocks(pipe_toChild)
    /\ pipe_toChild' = PipeRecv(pipe_toChild).rest
    /\ pipe_got' = [pipe_got EXCEPT !["client"] = Append(@, PipeRecv(pipe_toChild).item)]
    /\ pipe_pc' = [pipe_pc EXCEPT !["client"] = "print_got"]
    /\ UNCHANGED <<pipe_toParent, pipe_main, pipe_i, pipe_message,
                   pipe_response, pipe_sent>>
    /\ UNCHANGED pipeOthers

\* A print statement of thread t: at position from, leading to position to.
PIPE_Print(t, from, to) ==
    /\ pipe_pc[t] = from
    /\ pipe_pc' = [pipe_pc EXCEPT ![t] = to]
    /\ UNCHANGED <<pipe_toParent, pipe_toChild, pipe_main, pipe_i,
                   pipe_message, pipe_response, pipe_sent, pipe_got>>
    /\ UNCHANGED pipeOthers

\* pipe_server: print(f"服务器: 收到消息 '{message}'")
PIPE_ServerPrint == PIPE_Print("server", "print", "format")

\* pipe_client: print(f"客户端: 发送消息 '{message}'")
PIPE_ClientPrintSent == PIPE_Print("client", "print_sent", "recv")

\* pipe_client: print(f"客户端: 收到响应 '{response}'")
PIPE_ClientPrintGot == PIPE_Print("client", "print_got", "sleep")

\* time.sleep(0.5) at the end of a pass of the loop of thread t, then the
\* next value of i.
PIPE_Sleep(t) ==
    /\ pipe_pc[t] = "sleep"
    /\ pipe_i' = [pipe_i EXCEPT ![t] = @ + 1]
    /\ pipe_pc' = [pipe_pc EXCEPT ![t] = IF t = "server"
                                          THEN PIPE_ServerAfter(pipe_i[t] + 1)
                                          ELSE PIPE_ClientAfter(pipe_i[t] + 1)]
    /\ UNCHANGED <<pipe_toParent, pipe_toChild, pipe_main, pipe_message,
                   pipe_response, pipe_sent, pipe_got>>
    /\ UNCHANGED pipeOthers

PIPE_Main ==
    \/ PIPE_MainStartServer
    \/ PIPE_MainStartClient
    \/ PIPE_MainJoinServer
    \/ PIPE_MainJoinClient
    \/ PIPE_MainCloseParent
    \/ PIPE_MainCloseChild

PIPE_Server ==
    \/ PIPE_ServerRecv
    \/ PIPE_ServerPrint
    \/ PIPE_ServerFormat
    \/ PIPE_ServerSend
    \/ PIPE_Sleep("server")

PIPE_Client ==
    \/ PIPE_ClientSend
    \/ PIPE_ClientPrintSent
    \/ PIPE_ClientRecv
    \/ PIPE_ClientPrintGot
    \/ PIPE_Sleep("client")

PIPE_Next == PIPE_Main \/ PIPE_Server \/ PIPE_Client

(***************************************************************************)
(* threading.Lock: acquire() blocks while the lock is locked and locks it; *)
(* release() unlocks it and raises RuntimeError on an unlocked lock.       *)
(***************************************************************************)

\* Lock.acquire(): whether the caller can take the lock now.
LockCanAcquireAlways(locked) == TRUE
LockCanAcquire(locked) == ~locked

(***************************************************************************)
(* lock_example                                                            *)
(***************************************************************************)

\* num_threads = 5 and iterations_per_thread = 1000 in the source.  The
\* threads run the same code and every pass of the loop takes the same
\* steps; the model runs this many threads and this many passes per thread.
num_threads == 3
iterations_per_thread == 2

LOCK_Threads == 0 .. num_threads - 1

\* The positions of a thread inside the try block and its finally clause.
LOCK_Critical == {"read", "sleep", "write", "release"}

LOCK_Init ==
    /\ lock_locked = FALSE
    /\ shared_counter = 0
    /\ lock_main = "start"
    /\ lock_mi = 0
    /\ lock_pc = [t \in LOCK_Threads |-> "idle"]
    /\ lock_i = [t \in LOCK_Threads |-> 0]
    /\ lock_current = [t \in LOCK_Threads |-> 0]

\* for i in range(iterations): a thread's position at the top of its loop.
LOCK_ThreadAfter(i, iterations) == IF i < iterations THEN "acquire" ELSE "done"

\* for i in range(num_threads): thread.start()
LOCK_MainStart ==
    /\ lock_main = "start"
    /\ lock_pc' = [lock_pc EXCEPT ![lock_mi] = LOCK_ThreadAfter(0, iterations_per_thread)]
    /\ IF lock_mi + 1 < num_threads
       THEN /\ lock_mi' = lock_mi + 1
            /\ UNCHANGED lock_main
       ELSE /\ lock_mi' = 0
            /\ lock_main' = "join"
    /\ UNCHANGED <<lock_locked, shared_counter, lock_i, lock_current>>
    /\ UNCHANGED lockOthers

\* for thread in threads: thread.join()
LOCK_MainJoin ==
    /\ lock_main = "join"
    /\ lock_pc[lock_mi] \in {"done", "crashed"}
    /\ IF lock_mi + 1 < num_threads
       THEN /\ lock_mi' = lock_mi + 1
            /\ UNCHANGED lock_main
       ELSE /\ lock_mi' = 0
            /\ lock_main' = "done"
    /\ UNCHANGED <<lock_locked, shared_counter, lock_pc, lock_i, lock_current>>
    /\ UNCHANGED lockOthers

\* lock.acquire()
LOCK_Acquire(t) ==
    /\ lock_pc[t] = "acquire"
    /\ LockCanAcquire(lock_locked)
    /\ lock_locked' = TRUE
    /\ lock_pc' = [lock_pc EXCEPT ![t] = "read"]
    /\ UNCHANGED <<shared_counter, lock_main, lock_mi, lock_i, lock_current>>
    /\ UNCHANGED lockOthers

\* current_value = shared_counter
LOCK_Read(t) ==
    /\ lock_pc[t] = "read"
    /\ lock_current' = [lock_current EXCEPT ![t] = shared_counter]
    /\ lock_pc' = [lock_pc EXCEPT ![t] = "sleep"]
    /\ UNCHANGED <<lock_locked, shared_counter, lock_main, lock_mi, lock_i>>
    /\ UNCHANGED lockOthers

\* time.sleep(0.001)
LOCK_Sleep(t) ==
    /\ lock_pc[t] = "sleep"
    /\ lock_pc' = [lock_pc EXCEPT ![t] = "write"]
    /\ UNCHANGED <<lock_locked, shared_counter, lock_main, lock_mi, lock_i,
                   lock_current>>
    /\ UNCHANGED lockOthers

\* shared_counter = current_value + 1
LOCK_Write(t) ==
    /\ lock_pc[t] = "write"
    /\ shared_counter' = lock_current[t] + 1
    /\ lock_pc' = [lock_pc EXCEPT ![t] = "release"]
    /\ UNCHANGED <<lock_locked, lock_main, lock_mi, lock_i, lock_current>>
    /\ UNCHANGED lockOthers

\* finally: lock.release(), then the next pass of the loop; releasing an
\* unlocked lock raises RuntimeError and ends the thread.
LOCK_Release(t) ==
    /\ lock_pc[t] = "release"
    /\ IF ~lock_locked
       THEN /\ lock_pc' = [lock_pc EXCEPT ![t] = "crashed"]
            /\ UNCHANGED <<lock_locked, lock_i>>
       ELSE /\ lock_locked' = FALSE
            /\ lock_i' = [lock_i EXCEPT ![t] = @ + 1]
            /\ lock_pc' = [lock_pc EXCEPT ![t] =
                              LOCK_ThreadAfter(lock_i[t] + 1, iterations_per_thread)]
    /\ UNCHANGED <<shared_counter, lock_main, lock_mi, lock_current>>
    /\ UNCHANGED lockOthers

LOCK_Main == LOCK_MainStart \/ LOCK_MainJoin

LOCK_Thread(t) ==
    \/ LOCK_Acquire(t)
    \/ LOCK_Read(t)
    \/ LOCK_Sleep(t)
    \/ LOCK_Write(t)
    \/ LOCK_Release(t)

LOCK_Next == LOCK_Main \/ \E t \in LOCK_Threads : LOCK_Thread(t)

(***************************************************************************)
(* event_communication_example                                             *)
(***************************************************************************)

EC_first == 1           \* for i in range(1, 4), in both threads
EC_stop == 4            \* for i in range(1, 4), in both threads
EC_None == 0            \* shared_data = None; the datum "生成的数据 #{i}" is i

EC_Threads == {"generator", "processor"}
EC_Events == {"data_ready", "data_processed"}

EC_Init ==
    /\ ec_flag = [e \in EC_Events |-> FALSE]
    /\ ec_blocked = [e \in EC_Events |-> {}]
    /\ ec_global = EC_None
    /\ ec_shared = EC_None
    /\ ec_main = "start_generator"
    /\ ec_pc = [t \in EC_Threads |-> "idle"]
    /\ ec_i = [t \in EC_Threads |-> EC_first]
    /\ ec_read = << >>
    /\ ec_log = << >>

\* for i in range(1, 4): the position at the top of the loop, first being
\* the position of the first statement of the body.
EC_LoopAfter(i, first) == IF i < EC_stop THEN first ELSE "done"

\* generator_thread.start(), processor_thread.start(), generator_thread.join()
\* and processor_thread.join().
EC_MainStart(t, from, to, first) ==
    /\ ec_main = from
    /\ ec_main' = to
    /\ ec_pc' = [ec_pc EXCEPT ![t] = EC_LoopAfter(EC_first, first)]
    /\ UNCHANGED <<ec_flag, ec_blocked, ec_global, ec_shared, ec_i, ec_read, ec_log>>
    /\ UNCHANGED ecOthers

EC_MainJoin(t, from, to) ==
    /\ ec_main = from
    /\ ec_pc[t] = "done"
    /\ ec_main' = to
    /\ UNCHANGED <<ec_flag, ec_blocked, ec_global, ec_shared, ec_pc, ec_i, ec_read,
                   ec_log>>
    /\ UNCHANGED ecOthers

\* data_generator: global shared_data; shared_data = f"生成的数据 #{i}".  The
\* assignment goes to the module's global, not to the variable of
\* event_communication_example.
EC_GenWrite ==
    /\ ec_pc["generator"] = "write"
    /\ ec_global' = ec_i["generator"]
    /\ ec_pc' = [ec_pc EXCEPT !["generator"] = "print"]
    /\ ec_log' = Append(ec_log, [op |-> "write", e |-> "shared_data", i |-> ec_i["generator"]])
    /\ UNCHANGED <<ec_flag, ec_blocked, ec_shared, ec_main, ec_i, ec_read>>
    /\ UNCHANGED ecOthers

\* data_generator: print(f"生成器: 生成数据 '{shared_data}'")
EC_GenPrint ==
    /\ ec_pc["generator"] = "print"
    /\ ec_pc' = [ec_pc EXCEPT !["generator"] = "set"]
    /\ UNCHANGED <<ec_flag, ec_blocked, ec_global, ec_shared, ec_main, ec_i,
                   ec_read, ec_log>>
    /\ UNCHANGED ecOthers

\* data_processor: print(f"处理器: 处理数据 '{shared_data}'"), where
\* shared_data is the variable of the enclosing event_communication_example.
EC_ProcPrint ==
    /\ ec_pc["processor"] = "print"
    /\ ec_read' = Append(ec_read, ec_shared)
    /\ ec_pc' = [ec_pc EXCEPT !["processor"] = "clear"]
    /\ ec_log' = Append(ec_log, [op |-> "read", e |-> "shared_data", i |-> ec_i["processor"]])
    /\ UNCHANGED <<ec_flag, ec_blocked, ec_global, ec_shared, ec_main, ec_i>>
    /\ UNCHANGED ecOthers

\* Thread t calls e.set() and goes to next: the flag is set and the threads
\* blocked in e.wait() are woken.
EC_Set(t, e, next) ==
    /\ ec_pc[t] = "set"
    /\ ec_flag' = [ec_flag EXCEPT ![e] = TRUE]
    /\ ec_blocked' = [ec_blocked EXCEPT ![e] = @ \ EvNotified(@)]
    /\ ec_pc' = [u \in EC_Threads |->
                    IF u = t THEN next
                    ELSE IF u \in EvNotified(ec_blocked[e]) THEN "woken"
                    ELSE ec_pc[u]]
    /\ ec_log' = Append(ec_log, [op |-> "set", e |-> e, i |-> ec_i[t]])
    /\ UNCHANGED <<ec_global, ec_shared, ec_main, ec_i, ec_read>>
    /\ UNCHANGED ecOthers

\* Thread t calls e.wait(): it returns at once when the flag is set and
\* blocks otherwise.
EC_Wait(t, e, next) ==
    /\ ec_pc[t] = "wait"
    /\ IF EvWaitReturnsAtOnce(ec_flag[e])
       THEN /\ ec_pc' = [ec_pc EXCEPT ![t] = next]
            /\ UNCHANGED ec_blocked
       ELSE /\ ec_pc' = [ec_pc EXCEPT ![t] = "blocked"]
            /\ ec_blocked' = [ec_blocked EXCEPT ![e] = @ \cup {t}]
    /\ UNCHANGED <<ec_flag, ec_global, ec_shared, ec_main, ec_i, ec_read, ec_log>>
    /\ UNCHANGED ecOthers

\* Thread t, woken by a set(), returns from wait().
EC_Wake(t, next) ==
    /\ ec_pc[t] = "woken"
    /\ ec_pc' = [ec_pc EXCEPT ![t] = next]
    /\ UNCHANGED <<ec_flag, ec_blocked, ec_global, ec_shared, ec_main, ec_i,
                   ec_read, ec_log>>
    /\ UNCHANGED ecOthers

\* Thread t calls e.clear() and goes to next.
EC_Clear(t, e, next) ==
    /\ ec_pc[t] = "clear"
    /\ ec_flag' = [ec_flag EXCEPT ![e] = FALSE]
    /\ ec_pc' = [ec_pc EXCEPT ![t] = next]
    /\ ec_log' = Append(ec_log, [op |-> "clear", e |-> e, i |-> ec_i[t]])
    /\ UNCHANGED <<ec_blocked, ec_global, ec_shared, ec_main, ec_i, ec_read>>
    /\ UNCHANGED ecOthers

\* The end of a pass of thread t's loop (time.sleep(1) in data_generator,
\* the end of the body in data_processor) and the next value of i.
EC_NextPass(t, first) ==
    /\ ec_pc[t] = "next"
    /\ ec_i' = [ec_i EXCEPT ![t] = @ + 1]
    /\ ec_pc' = [ec_pc EXCEPT ![t] = EC_LoopAfter(ec_i[t] + 1, first)]
    /\ UNCHANGED <<ec_flag, ec_blocked, ec_global, ec_shared, ec_main, ec_read,
                   ec_log>>
    /\ UNCHANGED ecOthers

EC_Main ==
    \/ EC_MainStart("generator", "start_generator", "start_processor", "write")
    \/ EC_MainStart("processor", "start_processor", "join_generator", "wait")
    \/ EC_MainJoin("generator", "join_generator", "join_processor")
    \/ EC_MainJoin("processor", "join_processor", "done")

\* data_generator: write, print, data_ready.set(), data_processed.wait(),
\* data_processed.clear(), time.sleep(1).
EC_Generator ==
    \/ EC_GenWrite
    \/ EC_GenPrint
    \/ EC_Set("generator", "data_ready", "wait")
    \/ EC_Wait("generator", "data_processed", "clear")
    \/ EC_Wake("generator", "clear")
    \/ EC_Clear("generator", "data_processed", "next")
    \/ EC_NextPass("generator", "write")

\* data_processor: data_ready.wait(), print, data_ready.clear(),
\* data_processed.set().
EC_Processor ==
    \/ EC_Wait("processor", "data_ready", "print")
    \/ EC_Wake("processor", "print")
    \/ EC_ProcPrint
    \/ EC_Clear("processor", "data_ready", "set")
    \/ EC_Set("processor", "data_processed", "next")
    \/ EC_NextPass("processor", "wait")

EC_Next == EC_Main \/ EC_Generator \/ EC_Processor

(***************************************************************************)
(* shared_variable_example                                                 *)
(***************************************************************************)

SV_first == 1           \* data_producer: for i in range(1, 6)
SV_stop == 6            \* data_producer: for i in range(1, 6)
SV_factor == 10         \* shared_data["value"] = i * 10
SV_target == 5          \* data_consumer: while updates_received < 5

SV_Threads == {"producer", "consumer"}

SV_Init ==
    /\ sv_value = 0
    /\ sv_updated = FALSE
    /\ sv_locked = FALSE
    /\ sv_main = "start_producer"
    /\ sv_pc = [t \in SV_Threads |-> "idle"]
    /\ sv_i = SV_first
    /\ sv_received = 0
    /\ sv_written = << >>
    /\ sv_log = << >>

\* for i in range(1, 6) and while updates_received < 5: the position at the
\* top of the loop.
SV_ProducerAfter(i) == IF i < SV_stop THEN "acquire" ELSE "done"
SV_ConsumerAfter(n) == IF n < SV_target THEN "acquire" ELSE "done"

\* producer_thread.start() and consumer_thread.start()
SV_MainStart(t, from, to) ==
    /\ sv_main = from
    /\ sv_main' = to
    /\ sv_pc' = [sv_pc EXCEPT ![t] = IF t = "producer"
                                      THEN SV_ProducerAfter(sv_i)
                                      ELSE SV_ConsumerAfter(sv_received)]
    /\ UNCHANGED <<sv_value, sv_updated, sv_locked, sv_i, sv_received, sv_written,
                   sv_log>>
    /\ UNCHANGED svOthers

\* producer_thread.join() and consumer_thread.join()
SV_MainJoin(t, from, to) ==
    /\ sv_main = from
    /\ sv_pc[t] = "done"
    /\ sv_main' = to
    /\ UNCHANGED <<sv_value, sv_updated, sv_locked, sv_pc, sv_i, sv_received,
                   sv_written, sv_log>>
    /\ UNCHANGED svOthers

\* with lock: thread t takes the lock.
SV_Acquire(t) ==
    /\ sv_pc[t] = "acquire"
    /\ LockCanAcquire(sv_locked)
    /\ sv_locked' = TRUE
    /\ sv_pc' = [sv_pc EXCEPT ![t] = "body"]
    /\ UNCHANGED <<sv_value, sv_updated, sv_main, sv_i, sv_received, sv_written,
                   sv_log>>
    /\ UNCHANGED svOthers

\* data_producer, under the lock: shared_data["value"] = i * 10;
\* shared_data["updated"] = True; print.
SV_ProducerWrite ==
    /\ sv_pc["producer"] = "body"
    /\ sv_value' = sv_i * SV_factor
    /\ sv_updated' = TRUE
    /\ sv_written' = Append(sv_written, sv_i * SV_factor)
    /\ sv_pc' = [sv_pc EXCEPT !["producer"] = "release"]
    /\ UNCHANGED <<sv_locked, sv_main, sv_i, sv_received, sv_log>>
    /\ UNCHANGED svOthers

\* data_consumer, under the lock: if shared_data["updated"]: print the
\* value, reset the flag, updates_received += 1.
SV_ConsumerRead ==
    /\ sv_pc["consumer"] = "body"
    /\ IF sv_updated
       THEN /\ sv_log' = Append(sv_log, sv_value)
            /\ sv_updated' = FALSE
            /\ sv_received' = sv_received + 1
       ELSE UNCHANGED <<sv_log, sv_updated, sv_received>>
    /\ sv_pc' = [sv_pc EXCEPT !["consumer"] = "release"]
    /\ UNCHANGED <<sv_value, sv_locked, sv_main, sv_i, sv_written>>
    /\ UNCHANGED svOthers

\* The end of the with block of thread t: the lock is released.
SV_Release(t) ==
    /\ sv_pc[t] = "release"
    /\ sv_locked' = FALSE
    /\ sv_pc' = [sv_pc EXCEPT ![t] = "sleep"]
    /\ UNCHANGED <<sv_value, sv_updated, sv_main, sv_i, sv_received, sv_written,
                   sv_log>>
    /\ UNCHANGED svOthers

\* data_producer: time.sleep(1) and the next i.
SV_ProducerSleep ==
    /\ sv_pc["producer"] = "sleep"
    /\ sv_i' = sv_i + 1
    /\ sv_pc' = [sv_pc EXCEPT !["producer"] = SV_ProducerAfter(sv_i + 1)]
    /\ UNCHANGED <<sv_value, sv_updated, sv_locked, sv_main, sv_received,
                   sv_written, sv_log>>
    /\ UNCHANGED svOthers

\* data_consumer: time.sleep(0.5) and the test of the while loop.
SV_ConsumerSleep ==
    /\ sv_pc["consumer"] = "sleep"
    /\ sv_pc' = [sv_pc EXCEPT !["consumer"] = SV_ConsumerAfter(sv_received)]
    /\ UNCHANGED <<sv_value, sv_updated, sv_locked, sv_main, sv_i, sv_received,
                   sv_written, sv_log>>
    /\ UNCHANGED svOthers

SV_Main ==
    \/ SV_MainStart("producer", "start_producer", "start_consumer")
    \/ SV_MainStart("consumer", "start_consumer", "join_producer")
    \/ SV_MainJoin("producer", "join_producer", "join_consumer")
    \/ SV_MainJoin("consumer", "join_consumer", "done")

SV_Producer ==
    \/ SV_Acquire("producer")
    \/ SV_ProducerWrite
    \/ SV_Release("producer")
    \/ SV_ProducerSleep

SV_Consumer ==
    \/ SV_Acquire("consumer")
    \/ SV_ConsumerRead
    \/ SV_Release("consumer")
    \/ SV_ConsumerSleep

SV_Next == SV_Main \/ SV_Producer \/ SV_Consumer

(***************************************************************************)
(* Test.py: FunctionA runs _run on a thread of its own; main awaits        *)
(* FunctionB.run, which calls get_state() after each sleep, and calls      *)
(* stop() when run is interrupted.                                         *)
(***************************************************************************)

FA_period == 5          \* if self.count % 5 == 0

\* The passes of _run's loop and of FunctionB.run's loop the model follows.
FA_MaxCount == 11
FB_MaxChecks == 2

\* self.state = State.WAIT if self.state == State.WORK else State.WORK
FA_Toggled(state) == IF state = "work" THEN "wait" ELSE "work"

FA_Init ==
    /\ fa_state = "work"
    /\ fa_count = 0
    /\ fa_locked = FALSE
    /\ fa_running = FALSE
    /\ fa_thread = "none"
    /\ fa_main = "start"
    /\ fb_check_count = 0
    /\ fb_seen = [state |-> "work", count |-> 0]
    /\ fa_atStop = [state |-> "work", count |-> 0]

\* main: function_a.start(): _running = True and the thread starts.
FA_Start ==
    /\ fa_main = "start"
    /\ fa_running' = TRUE
    /\ fa_thread' = "while"
    /\ fa_main' = "sleep"
    /\ UNCHANGED <<fa_state, fa_count, fa_locked, fb_check_count, fb_seen, fa_atStop>>
    /\ UNCHANGED faOthers

\* _run: while self._running
FA_RunWhile ==
    /\ fa_thread = "while"
    /\ fa_thread' = IF fa_running THEN "acquire" ELSE "done"
    /\ UNCHANGED <<fa_state, fa_count, fa_locked, fa_running, fa_main,
                   fb_check_count, fb_seen, fa_atStop>>
    /\ UNCHANGED faOthers

\* _run: with self._lock
FA_RunAcquire ==
    /\ fa_thread = "acquire"
    /\ LockCanAcquire(fa_locked)
    /\ fa_locked' = TRUE
    /\ fa_thread' = "print"
    /\ UNCHANGED <<fa_state, fa_count, fa_running, fa_main, fb_check_count,
                   fb_seen, fa_atStop>>
    /\ UNCHANGED faOthers

\* _run: print(... hello ...)
FA_RunPrint ==
    /\ fa_thread = "print"
    /\ fa_thread' = "increment"
    /\ UNCHANGED <<fa_state, fa_count, fa_locked, fa_running, fa_main,
                   fb_check_count, fb_seen, fa_atStop>>
    /\ UNCHANGED faOthers

\* _run: self.count += 1
FA_RunIncrement ==
    /\ fa_thread = "increment"
    /\ fa_count < FA_MaxCount
    /\ fa_count' = fa_count + 1
    /\ fa_thread' = "toggle"
    /\ UNCHANGED <<fa_state, fa_locked, fa_running, fa_main, fb_check_count,
                   fb_seen, fa_atStop>>
    /\ UNCHANGED faOthers

\* _run: if self.count % 5 == 0: toggle the state (and print it).
FA_RunToggle ==
    /\ fa_thread = "toggle"
    /\ fa_state' = IF fa_count % FA_period = 0 THEN FA_Toggled(fa_state) ELSE fa_state
    /\ fa_thread' = "release"
    /\ UNCHANGED <<fa_count, fa_locked, fa_running, fa_main, fb_check_count,
                   fb_seen, fa_atStop>>
    /\ UNCHANGED faOthers

\* _run: the end of the with block.
FA_RunRelease ==
    /\ fa_thread = "release"
    /\ fa_locked' = FALSE
    /\ fa_thread' = "sleep"
    /\ UNCHANGED <<fa_state, fa_count, fa_running, fa_main, fb_check_count,
                   fb_seen, fa_atStop>>
    /\ UNCHANGED faOthers

\* _run: time.sleep(1)
FA_RunSleep ==
    /\ fa_thread = "sleep"
    /\ fa_thread' = "while"
    /\ UNCHANGED <<fa_state, fa_count, fa_locked, fa_running, fa_main,
                   fb_check_count, fb_seen, fa_atStop>>
    /\ UNCHANGED faOthers

\* FunctionB.run: await asyncio.sleep(7) returns; self.check_count += 1.
FB_SleepReturns ==
    /\ fa_main = "sleep"
    /\ fb_check_count < FB_MaxChecks
    /\ fb_check_count' = fb_check_count + 1
    /\ fa_main' = "get_state"
    /\ UNCHANGED <<fa_state, fa_count, fa_locked, fa_running, fa_thread, fb_seen,
                   fa_atStop>>
    /\ UNCHANGED faOthers

\* get_state: with self._lock
FA_GetStateAcquire ==
    /\ fa_main = "get_state"
    /\ LockCanAcquire(fa_locked)
    /\ fa_locked' = TRUE
    /\ fa_main' = "return"
    /\ UNCHANGED <<fa_state, fa_count, fa_running, fa_thread, fb_check_count,
                   fb_seen, fa_atStop>>
    /\ UNCHANGED faOthers

\* get_state: return self.state, self.count, releasing the lock; FunctionB.run
\* prints the pair and goes back to sleep.
FA_GetStateReturn ==
    /\ fa_main = "return"
    /\ fb_seen' = [state |-> fa_state, count |-> fa_count]
    /\ fa_locked' = FALSE
    /\ fa_main' = "sleep"
    /\ UNCHANGED <<fa_state, fa_count, fa_running, fa_thread, fb_check_count,
                   fa_atStop>>
    /\ UNCHANGED faOthers

\* main: KeyboardInterrupt during await function_b.run(); the finally
\* clause calls function_a.stop(), whose first statement is
\* self._running = False.
FA_StopClear ==
    /\ fa_main = "sleep"
    /\ fa_running' = FALSE
    /\ fa_main' = "join"
    /\ UNCHANGED <<fa_state, fa_count, fa_locked, fa_thread, fb_check_count,
                   fb_seen, fa_atStop>>
    /\ UNCHANGED faOthers

\* stop: self._thread.join(timeout=1) returns, the thread having ended or
\* the second having passed, and stop() returns.
FA_StopJoin ==
    /\ fa_main = "join"
    /\ fa_main' = "stopped"
    /\ fa_atStop' = [state |-> fa_state, count |-> fa_count]
    /\ UNCHANGED <<fa_state, fa_count, fa_locked, fa_running, fa_thread,
                   fb_check_count, fb_seen>>
    /\ UNCHANGED faOthers

FA_Run ==
    \/ FA_RunWhile
    \/ FA_RunAcquire
    \/ FA_RunPrint
    \/ FA_RunIncrement
    \/ FA_RunToggle
    \/ FA_RunRelease
    \/ FA_RunSleep

FA_Main ==
    \/ FA_Start
    \/ FB_SleepReturns
    \/ FA_GetStateAcquire
    \/ FA_GetStateReturn
    \/ FA_StopClear
    \/ FA_StopJoin

FA_Next == FA_Run \/ FA_Main

(***************************************************************************)
(* Specifications                                                          *)
(***************************************************************************)

\* The initial state of every example but priority_queue_example.
InitRest ==
    /\ QE_Init /\ BQ_Init /\ BUS_Init /\ SEM_Init /\ EV_Init
    /\ COND_Init /\ PIPE_Init /\ LOCK_Init
    /\ EC_Init /\ SV_Init /\ FA_Init

Init == InitRest /\ PQ_Init

SpecQE == Init /\ [][QE_Next]_vars

\* Every started thread keeps running: the interpreter schedules each
\* runnable thread again and again.
FairSpecQE ==
    /\ SpecQE
    /\ WF_vars(QE_Main)
    /\ WF_vars(QE_Producer)
    /\ WF_vars(QE_Consumer)

SpecBQ == Init /\ [][BQ_Next]_vars

SpecBus == Init /\ [][BUS_Next]_vars

\* priority_queue_example with the producer's list drawn from PQ_Inputs.
InitPQ ==
    /\ InitRest
    /\ \E input \in PQ_Inputs : PQ_InitWith(input)

SpecPQ == InitPQ /\ [][PQ_Next]_vars

SpecSem == Init /\ [][SEM_Next]_vars

SpecEvent == Init /\ [][EV_Next]_vars

\* Every started thread of event_example keeps running.
FairSpecEvent ==
    /\ SpecEvent
    /\ WF_vars(EV_Main)
    /\ WF_vars(EV_SetterSet)
    /\ \A w \in EV_Ids : WF_vars(EV_Waiter(w))

\* The examples that use queue.Queue and the queue under arbitrary
\* callers, one of them running in a behaviour: each takes steps only while
\* the others are in their initial state.
QueuesNext ==
    \/ BQ_Init /\ BUS_Init /\ QE_Next
    \/ QE_Init /\ BUS_Init /\ BQ_Next
    \/ QE_Init /\ BQ_Init /\ BUS_Next

SpecQueues == Init /\ [][QueuesNext]_vars

SpecCond == Init /\ [][COND_Next]_vars

\* Every started thread of condition_example keeps running.
FairSpecCond ==
    /\ SpecCond
    /\ WF_vars(COND_Main)
    /\ WF_vars(COND_Producer)
    /\ WF_vars(COND_Consumer)

\* condition_example on a platform whose wait() may return spuriously.
SpecCondSpurious == Init /\ [][COND_NextSpurious]_vars

SpecPipe == Init /\ [][PIPE_Next]_vars

FairSpecPipe ==
    SpecPipe /\ WF_vars(PIPE_Main) /\ WF_vars(PIPE_Server) /\ WF_vars(PIPE_Client)

SpecLock == Init /\ [][LOCK_Next]_vars

SpecEC == Init /\ [][EC_Next]_vars

SpecSV == Init /\ [][SV_Next]_vars

SpecFA == Init /\ [][FA_Next]_vars

FairSpecEC ==
    SpecEC /\ WF_vars(EC_Main) /\ WF_vars(EC_Generator) /\ WF_vars(EC_Processor)

Next ==
    \/ QE_Next \/ BQ_Next \/ BUS_Next \/ PQ_Next \/ SEM_Next \/ EV_Next
    \/ COND_Next \/ PIPE_Next \/ LOCK_Next
    \/ EC_Next \/ SV_Next \/ FA_Next

Spec == Init /\ [][Next]_vars

(***************************************************************************)
(* Properties                                                              *)
(***************************************************************************)

IsPrefix(s, t) == Len(s) <= Len(t) /\ SubSeq(t, 1, Len(s)) = s

\* The items the callers have put so far, in the order of the puts.
BQ_PutSoFar == [k \in 1 .. (bq_next - 1) |-> k]

\* C1: on a bounded queue of capacity C, whatever the interleaving of the
\* calls, the items get has returned followed by the items still stored are
\* exactly the items put, in order (each delivered once, none lost, none
\* duplicated), so N successful gets after N successful puts return exactly
\* the N items put; and the queue never holds more than C items.
C1_ExactlyOnceWithinCapacity ==
    /\ bq_got \o bq_queue = BQ_PutSoFar
    /\ Len(bq_got) = Len(BQ_PutSoFar) => bq_got = BQ_PutSoFar
    /\ Len(bq_queue) <= BQCap

\* C1 witness: every item has been put and got, which needs puts that found
\* the queue full before (there are more items than capacity).
C1_Witness ==
    /\ BQItems > BQCap
    /\ bq_next = BQItems + 1
    /\ Len(bq_got) = BQItems
    /\ bq_queue = << >>

\* C2: once message_queue.join() has returned to the main thread, pending
\* (unfinished_tasks) is 0, every item put has been acknowledged with
\* task_done, and the consumer does not hold an item it has got and not yet
\* acknowledged.
C2_JoinOnlyWhenAllAcknowledged ==
    qe_main \in {"join_consumer", "done"} =>
        /\ qe_unfinished = 0
        /\ qe_cons # "task_done"
        /\ qe_acks = Len(qe_putLog)
        /\ Len(qe_recvLog) = Len(qe_putLog)

\* C2 witness: join() has returned after the consumer acknowledged 10 items.
C2_Witness ==
    /\ qe_main = "join_consumer"
    /\ qe_acks = QE_target
    /\ qe_unfinished = 0

QE_AllLabels == [k \in 1 .. (QE_stop - QE_first) |-> QE_first + k - 1]

QE_Finished ==
    /\ qe_main = "done"
    /\ qe_prod = "done"
    /\ qe_cons = "done"
    /\ qe_recvLog = QE_AllLabels

\* C3: in queue_example, for every interleaving, no put fails with Full, the
\* consumer receives the items in the order they were put (the 10 labels in
\* order), and eventually join() has returned and all threads have ended
\* with the consumer having received exactly the 10 items.
C3_EndToEnd ==
    /\ [](/\ qe_fullSeen = {}
          /\ IsPrefix(qe_recvLog, qe_putLog)
          /\ IsPrefix(qe_putLog, QE_AllLabels))
    /\ <>QE_Finished

\* C3 witness: the run has ended with all 10 items received and acknowledged.
C3_Witness == QE_Finished /\ qe_acks = QE_target /\ Len(qe_recvLog) = 10

IsNotExit(m) == m.msg_type # "EXIT"

\* The non-sentinel messages enqueued so far, in the order of their puts.
BUS_Enqueued == SelectSeq(bus_enq, IsNotExit)

\* C4: in message_passing_example, for every interleaving of service_a and
\* service_b, the handler processes the non-sentinel messages in the order
\* they were enqueued, none skipped and none twice, so the messages of one
\* sender are processed in the order it sent them; when the main thread has
\* finished, all 5 have been processed.
C4_DispatchedOnceInQueueOrder ==
    /\ IsPrefix(bus_handled, BUS_Enqueued)
    /\ \A i, j \in 1 .. Len(bus_handled) :
          i < j => /\ bus_handled[i] # bus_handled[j]
                   /\ bus_handled[i].sender = bus_handled[j].sender
                         => bus_handled[i].n < bus_handled[j].n
    /\ bus_main = "done" =>
          /\ bus_handled = BUS_Enqueued
          /\ Len(bus_handled) = BUS_requests + BUS_notifications

\* C4 witness: the run has ended, all 5 messages were processed, and the two
\* services' puts were interleaved (a notification came first, a request last).
C4_Witness ==
    /\ bus_main = "done"
    /\ Len(bus_handled) = 5
    /\ bus_handled[1].sender = "ServiceB"
    /\ bus_handled[5].sender = "ServiceA"

\* C5 as stated: when join() has returned to the main thread, the handler
\* has acknowledged every message and has left its while-loop.
C5_JoinReturnsAfterHandlerStopped ==
    bus_main = "done" =>
        /\ bus_acks = Len(bus_enq)
        /\ bus_handler = "done"

\* C5 amended: when join() has returned to the main thread, the queue is
\* empty, pending is 0, all 5 messages were processed, every message
\* including the EXIT sentinel was acknowledged, and the handler is past the
\* task_done of its EXIT branch: it performs no further get or task_done,
\* but it may not have executed its break yet.
C5_JoinReturnsAfterHandlerDrained ==
    bus_main = "done" =>
        /\ bus_queue = << >>
        /\ bus_unfinished = 0
        /\ bus_handled = BUS_Enqueued
        /\ Len(bus_handled) = BUS_requests + BUS_notifications
        /\ bus_acks = Len(bus_enq)
        /\ bus_handler \in {"break", "done"}

\* C5 witness: join() has returned while the handler is still inside its
\* loop, about to break.
C5_Witness ==
    /\ bus_main = "done"
    /\ bus_handler = "break"
    /\ bus_acks = 6

PQ_Priorities(log) == [k \in 1 .. Len(log) |-> log[k].item[1]]

PQ_Present(k) == {pq_log[k].before[x] : x \in 1 .. Len(pq_log[k].before)}

\* C6: every get of the priority queue returns an item whose priority is
\* the minimum over the items present when the get is served; and when the
\* priorities 3, 1, 2, 5, 4 were all inserted, in that order, before the
\* first get, the gets return the priorities 1, 2, 3, 4, 5 in that order.
C6_GetReturnsMinimumPriority ==
    /\ \A k \in 1 .. Len(pq_log) :
          \A x \in PQ_Present(k) : pq_log[k].item[1] <= x[1]
    /\ (/\ pq_input = messages_with_priority
        /\ Len(pq_log) > 0
        /\ Len(pq_log[1].before) = Len(pq_input))
          => /\ IsPrefix(PQ_Priorities(pq_log), <<1, 2, 3, 4, 5>>)
             /\ pq_cons = "done" => PQ_Priorities(pq_log) = <<1, 2, 3, 4, 5>>

\* C6 witness: the five items of priority_producer were inserted before the
\* first get, and five gets have returned.
C6_Witness ==
    /\ pq_input = messages_with_priority
    /\ Len(pq_log) = 5
    /\ Len(pq_log[1].before) = 5

SEM_Holders == {t \in SEM_Ids : sem_thread[t] = "holding"}

\* C8: in semaphore_example (2 permits, 5 threads) at most 2 threads are
\* between a successful acquire() and the matching release(), in every
\* reachable state.
C8_AtMostTwoHolders == Cardinality(SEM_Holders) <= SEM_permits

\* C8 witness: two threads hold a permit while the three others are started
\* and wait in acquire().
C8_Witness ==
    /\ Cardinality(SEM_Holders) = 2
    /\ Cardinality({t \in SEM_Ids : sem_thread[t] = "acquire"}) = 3
    /\ sem_value = 0

\* C9: the permits available are always N minus the number of holders, so
\* never negative and never above N, and N again once every thread has
\* released.
C9_PermitsAccountForHolders ==
    /\ sem_value = SEM_permits - Cardinality(SEM_Holders)
    /\ 0 <= sem_value /\ sem_value <= SEM_permits
    /\ (\A t \in SEM_Ids : sem_thread[t] = "done") => sem_value = SEM_permits

\* C9 witness: all five threads have acquired and released, and the main
\* thread has joined them.
C9_Witness ==
    /\ sem_main = "done"
    /\ \A t \in SEM_Ids : sem_thread[t] = "done"
    /\ sem_value = 2

EV_Returned == {w \in EV_Ids : ev_waiter[w] \in {"proceed", "done"}}

\* C10: in event_example no waiter returns from wait() while the flag is
\* unsignaled: a waiter that has returned did so after the setter's set(),
\* with the flag set; and once the flag is set every waiter eventually
\* proceeds and ends, those blocked in wait() at the set() and those that
\* call wait() after it.
C10_WaitersProceedAfterSetOnly ==
    /\ [](\A w \in EV_Returned :
             /\ ev_flag
             /\ ev_setter = "done"
             /\ ev_how[w] \in {"woken", "at_once"})
    /\ (ev_flag ~> (\A w \in EV_Ids : ev_waiter[w] = "done"))
    /\ <>(ev_main = "done" /\ \A w \in EV_Ids : ev_waiter[w] = "done")

\* C10 witness: all three waiters have ended; one was blocked in wait() when
\* set() came, another called wait() after set().
C10_Witness ==
    /\ \A w \in EV_Ids : ev_waiter[w] = "done"
    /\ \E w \in EV_Ids : ev_how[w] = "woken"
    /\ \E w \in EV_Ids : ev_how[w] = "at_once"

\* The items the producer of condition_example appends, in order.
COND_AllItems == [k \in 1 .. COND_items |-> k - 1]

\* C11: in condition_example the shared list never holds more than
\* MAX_ITEMS (5) items and the consumer never pops from an empty list (its
\* pop never raises), also when wait() returns spuriously: each thread tests
\* its condition again after every wake-up.
C11_BufferWithinBounds ==
    /\ Len(cond_queue) <= MAX_ITEMS
    /\ cond_pc["consumer"] # "crashed"
    /\ \A t \in COND_Threads : cond_pc[t] = "body" =>
          /\ cond_owner = t
          /\ t = "producer" => Len(cond_queue) < MAX_ITEMS
          /\ t = "consumer" => Len(cond_queue) > 0

\* C11 witness: the list is full and the producer, woken spuriously while
\* it is still full, waits for the lock to test its condition again.
C11_Witness ==
    /\ Len(cond_queue) = MAX_ITEMS
    /\ cond_pc["producer"] = "woken"
    /\ cond_waiters = << >>
    /\ cond_pc["consumer"] = "acquire"

COND_Finished ==
    /\ cond_main = "done"
    /\ cond_pc["producer"] = "done"
    /\ cond_pc["consumer"] = "done"
    /\ cond_log = COND_AllItems

\* C12: in condition_example no wake-up is lost: producer and consumer are
\* never both blocked in condition.wait(), the consumer removes the items in
\* the order they were appended, and eventually both threads have ended
\* with the consumer having removed exactly the 10 items.
C12_NoLostWakeup ==
    /\ [](/\ ~(cond_pc["producer"] = "waiting" /\ cond_pc["consumer"] = "waiting")
          /\ IsPrefix(cond_log, COND_AllItems)
          /\ cond_log \o cond_queue = SubSeq(COND_AllItems, 1, cond_i))
    /\ <>COND_Finished

\* C12 witness: the run has ended with all 10 items removed, after the
\* producer and the consumer have each blocked in wait() and been woken.
C12_Witness ==
    /\ COND_Finished
    /\ cond_waited = COND_Threads

\* C13: a put that times out fails with Full, and only on a full queue; a
\* get that times out fails with Empty, and only on an empty queue; a put on
\* a queue with room and a get on a queue with items succeed; the failing
\* call leaves the queue contents and the pending counter as they were.  In
\* queue_example the get that raises Empty leaves messages_received alone
\* and is followed by no task_done (the acknowledgements, the counter and
\* the queue are unchanged).
C13_TimeoutsChangeNothing ==
    [][/\ bq_result' = "Full" =>
             /\ Len(bq_queue) >= BQCap
             /\ UNCHANGED <<bq_queue, bq_unfinished, bq_got, bq_next, bq_acks>>
       /\ bq_result' = "put" => Len(bq_queue) < BQCap
       /\ bq_result' = "Empty" =>
             /\ Len(bq_queue) = 0
             /\ UNCHANGED <<bq_queue, bq_unfinished, bq_got, bq_next, bq_acks>>
       /\ bq_result' = "get" => Len(bq_queue) > 0
       /\ qe_emptySeen' # qe_emptySeen =>
             /\ Len(qe_queue) = 0
             /\ qe_cons = "get" /\ qe_cons' = "get"
             /\ UNCHANGED <<qe_queue, qe_unfinished, qe_received, qe_recvLog,
                            qe_acks>>
      ]_vars

\* C13 witness (queue under arbitrary callers): a put has just failed with
\* Full on a queue holding BQCap items.
C13_Witness ==
    /\ bq_result = "Full"
    /\ Len(bq_queue) = BQCap
    /\ bq_unfinished >= BQCap

\* C14: task_done() with no put outstanding fails (ValueError, the
\* InvalidState of the queue) and leaves pending at 0, so pending is never
\* negative; in queue_example and in message_handler task_done follows each
\* successful get exactly once, so there it never fails.
C14_TaskDoneNeverBelowZero ==
    /\ bq_unfinished >= 0 /\ qe_unfinished >= 0 /\ bus_unfinished >= 0
    /\ bq_result = "ValueError" => bq_unfinished = 0
    /\ bq_acks = (bq_next - 1) - bq_unfinished
    /\ qe_cons # "crashed"
    /\ bus_handler # "crashed"
    /\ Len(qe_recvLog) = qe_acks + (IF qe_cons = "task_done" THEN 1 ELSE 0)
    /\ Len(bus_enq) - Len(bus_queue)
          = bus_acks + (IF bus_handler \in {"task_done", "exit_task_done"} THEN 1 ELSE 0)

\* C14 witness: a task_done has just failed on a queue whose items were all
\* put, got and acknowledged.
C14_Witness ==
    /\ bq_result = "ValueError"
    /\ bq_unfinished = 0
    /\ bq_acks = BQItems
    /\ Len(bq_got) = BQItems

\* C15 as stated: after any sequence of put, get and task_done on a queue,
\* pending >= len(sequence).
C15_PendingAtLeastLength == bq_unfinished >= Len(bq_queue)

\* C15 amended: pending minus the number of items stored is the number of
\* successful gets minus the number of successful task_done calls; so
\* pending >= len holds as long as no more items were acknowledged than
\* got, which queue_example and message_handler keep (task_done only after
\* a get), and fails when a task_done runs ahead of the gets.
C15_PendingCountsUnacknowledged ==
    /\ bq_unfinished - Len(bq_queue) = Len(bq_got) - bq_acks
    /\ bq_acks <= Len(bq_got) => bq_unfinished >= Len(bq_queue)
    /\ qe_unfinished - Len(qe_queue) = Len(qe_recvLog) - qe_acks
    /\ qe_unfinished >= Len(qe_queue)
    /\ bus_unfinished >= Len(bus_queue)

\* C15 witness: an item was acknowledged before any get: pending is below
\* the number of items stored.
C15_Witness ==
    /\ bq_acks > Len(bq_got)
    /\ bq_unfinished < Len(bq_queue)

\* C17 as stated: a queue of capacity 0 or less is rejected when it is
\* constructed, so the message bus queue, built without a capacity, is
\* never in use.
C17_NoQueueOfCapacityZeroInUse ==
    BUS_maxsize <= 0 => bus_main \in {"construct", "crashed"}

\* C17 amended: queue.Queue accepts every maxsize and a maxsize of 0 or less
\* means no limit: the message bus queue, built with the default maxsize 0,
\* is constructed without error, is never full, and every put on it stores
\* its message.
C17_CapacityZeroIsUnbounded ==
    /\ BUS_maxsize = 0
    /\ bus_main # "crashed"
    /\ ~QFull(bus_queue, BUS_maxsize)
    /\ bus_main \in {"bus_join", "done"} =>
          Len(bus_enq) = BUS_requests + BUS_notifications + 1

\* C17 witness: the message bus queue is in use and holds all six messages
\* at once.
C17_Witness ==
    /\ BUS_maxsize = 0
    /\ Len(bus_queue) = BUS_requests + BUS_notifications + 1

\* C19 as stated: in priority_queue_example, when both threads have been
\* joined, the queue is empty, pending is 0 and the consumer has processed
\* all five messages.
C19_AllProcessedAtJoin ==
    (pq_input = messages_with_priority /\ pq_main = "done") =>
        /\ Len(pq_heap) = 0
        /\ pq_unfinished = 0
        /\ Len(pq_log) = Len(messages_with_priority)

\* C20: in message_passing_example the EXIT message is put only after both
\* services have finished and is the last message enqueued; it is the last
\* message the handler dequeues; the handler acknowledges it once and gets
\* nothing afterwards: when it has left its loop the queue is empty and
\* pending is 0.
C20_ExitIsLast ==
    /\ \A k \in 1 .. Len(bus_enq) :
          bus_enq[k].msg_type = "EXIT" =>
             /\ k = Len(bus_enq)
             /\ k = BUS_requests + BUS_notifications + 1
             /\ bus_a = "done" /\ bus_b = "done"
             /\ bus_main \in {"bus_join", "done"}
    /\ bus_handler = "exit_task_done" =>
          /\ Len(bus_queue) = 0
          /\ bus_unfinished = 1
          /\ bus_acks = BUS_requests + BUS_notifications
    /\ (Len(bus_enq) = BUS_requests + BUS_notifications + 1
           /\ Len(bus_queue) = 0 /\ bus_handler # "exit_task_done") =>
          /\ bus_handler \in {"break", "done"}
          /\ bus_unfinished = 0
          /\ bus_acks = BUS_requests + BUS_notifications + 1
          /\ Len(bus_handled) = BUS_requests + BUS_notifications
    /\ bus_handler \in {"break", "done"} =>
          /\ Len(bus_queue) = 0
          /\ bus_unfinished = 0
          /\ Len(bus_enq) = BUS_requests + BUS_notifications + 1

\* C20 witness: the handler has left its loop after the EXIT message, with
\* the queue empty and nothing pending.
C20_Witness ==
    /\ bus_handler = "done"
    /\ Len(bus_enq) > 0
    /\ bus_enq[Len(bus_enq)].msg_type = "EXIT"
    /\ bus_acks = BUS_requests + BUS_notifications + 1
    /\ Len(bus_queue) = 0
    /\ bus_unfinished = 0

\* The requests of the client and the responses of the server, in order.
PIPE_Requests(n) == [k \in 1 .. n |-> PIPE_Request(k - 1)]
PIPE_Responses(n) == [k \in 1 .. n |-> PIPE_Response(PIPE_Request(k - 1), k - 1)]

\* C16 as stated, for the Pipe() of pipe_example (no capacity, K = 0): on
\* either direction the sends that have returned never outnumber the
\* receives of the other endpoint.
C16_SendWaitsForReceive ==
    /\ Len(pipe_sent["client"]) - Len(pipe_got["server"]) <= 0
    /\ Len(pipe_sent["server"]) - Len(pipe_got["client"]) <= 0

\* C16 amended: send() returns once the message is in the connection's
\* buffer, before the other endpoint receives it; in pipe_example each
\* endpoint alternates send and recv, so on either direction the sends that
\* have returned outnumber the receives by at most one, the messages arrive
\* in the order sent, none is lost, and when the threads are joined every
\* request and every response has been received.
C16_AtMostOneInFlight ==
    /\ pipe_sent["client"] = pipe_got["server"] \o pipe_toParent
    /\ pipe_sent["server"] = pipe_got["client"] \o pipe_toChild
    /\ Len(pipe_toParent) <= 1
    /\ Len(pipe_toChild) <= 1
    /\ IsPrefix(pipe_sent["client"], PIPE_Requests(PIPE_clientRounds))
    /\ IsPrefix(pipe_sent["server"], PIPE_Responses(PIPE_serverRounds))
    /\ pipe_main \in {"close_parent", "close_child", "done"} =>
          /\ pipe_got["server"] = PIPE_Requests(PIPE_clientRounds)
          /\ pipe_got["client"] = PIPE_Responses(PIPE_serverRounds)
          /\ pipe_toParent = << >> /\ pipe_toChild = << >>

\* C16 witness: the client's send has returned and the client is already in
\* recv() while the server has not yet received the request.
C16_Witness ==
    /\ pipe_pc["client"] = "recv"
    /\ pipe_pc["server"] = "recv"
    /\ Len(pipe_toParent) = 1
    /\ Len(pipe_sent["client"]) = Len(pipe_got["server"]) + 1

\* The threads of lock_example between lock.acquire() and lock.release().
LOCK_Inside == {t \in LOCK_Threads : lock_pc[t] \in LOCK_Critical}

\* The passes of the loop completed by all threads together.
RECURSIVE LOCK_Passes(_)
LOCK_Passes(t) == IF t < 0 THEN 0 ELSE lock_i[t] + LOCK_Passes(t - 1)

\* C18: in lock_example at most one thread is between lock.acquire() and
\* lock.release(), and the lock is locked exactly while one is; no increment
\* is lost: shared_counter counts the completed writes, and after all threads
\* are joined it equals num_threads * iterations_per_thread; the lock is
\* released when a thread leaves the critical section (no release fails, and
\* the lock is free at the end).
C18_NoLostIncrement ==
    /\ Cardinality(LOCK_Inside) <= 1
    /\ lock_locked <=> LOCK_Inside # {}
    /\ \A t \in LOCK_Threads : lock_pc[t] # "crashed"
    /\ shared_counter =
          LOCK_Passes(num_threads - 1)
             + Cardinality({t \in LOCK_Threads : lock_pc[t] = "release"})
    /\ lock_main = "done" =>
          /\ shared_counter = num_threads * iterations_per_thread
          /\ ~lock_locked

\* C18 witness: all threads are joined and the counter has its final value,
\* each thread having made every pass of its loop.
C18_Witness ==
    /\ lock_main = "done"
    /\ shared_counter = num_threads * iterations_per_thread
    /\ \A t \in LOCK_Threads : lock_i[t] = iterations_per_thread /\ lock_pc[t] = "done"

\* The calls of round i of event_communication_example in strict
\* alternation, and the rounds one after the other.
EC_Round(i) ==
    << [op |-> "write", e |-> "shared_data", i |-> i],
       [op |-> "set", e |-> "data_ready", i |-> i],
       [op |-> "read", e |-> "shared_data", i |-> i],
       [op |-> "clear", e |-> "data_ready", i |-> i],
       [op |-> "set", e |-> "data_processed", i |-> i],
       [op |-> "clear", e |-> "data_processed", i |-> i] >>

RECURSIVE EC_Rounds(_)
EC_Rounds(i) == IF i >= EC_stop THEN << >> ELSE EC_Round(i) \o EC_Rounds(i + 1)

EC_Finished ==
    /\ ec_main = "done"
    /\ \A t \in EC_Threads : ec_pc[t] = "done"
    /\ ec_log = EC_Rounds(EC_first)

\* C21: in event_communication_example the generation, data_ready.set(),
\* the processing step, data_ready.clear(), data_processed.set() and
\* data_processed.clear() of round i happen in this order, and round i + 1
\* after round i: the i-th processing step lies between the i-th
\* data_ready.set() and the (i+1)-th generation; a clear() runs only after
\* the waiter of that event has returned from its wait() and before the next
\* set() of the event; and both threads complete their 3 rounds.
C21_StrictAlternation ==
    /\ [](/\ IsPrefix(ec_log, EC_Rounds(EC_first))
          /\ ec_pc["processor"] \in {"print", "clear"} => ec_flag["data_ready"]
          /\ ec_pc["generator"] = "clear" => ec_flag["data_processed"]
          /\ ~(ec_pc["generator"] = "blocked" /\ ec_pc["processor"] = "blocked"))
    /\ <>EC_Finished

\* C21 witness: both threads have completed the three rounds, each having
\* blocked in wait() or passed it at once.
C21_Witness ==
    /\ EC_Finished
    /\ Len(ec_log) = 6 * (EC_stop - EC_first)
    /\ ~ec_flag["data_ready"] /\ ~ec_flag["data_processed"]

\* C22 as stated: the value data_processor reads in round i is the datum
\* data_generator wrote in round i, never None.
C22_ProcessorReadsGeneratedDatum ==
    \A k \in 1 .. Len(ec_read) : ec_read[k] = EC_first + k - 1 /\ ec_read[k] # EC_None

\* C23 as stated: in shared_variable_example no value is overwritten before
\* it is read and none is read twice: the values read, followed by the value
\* waiting to be read, are the values written; and once the producer has
\* finished and the last value is read, the consumer has counted 5 updates.
C23_EveryUpdateReadOnce ==
    /\ sv_log \o (IF sv_updated THEN <<sv_value>> ELSE << >>) = sv_written
    /\ (sv_pc["producer"] = "done" /\ ~sv_updated) => sv_received = SV_target

\* C24: in pipe_example the i-th message the server receives is the
\* client's i-th request and the i-th message the client receives is the
\* response to request i; requests travel only towards parent_conn and
\* responses only towards child_conn, so no endpoint receives what it sent;
\* the endpoints are closed only when both threads have finished; and both
\* threads complete their 5 rounds.
C24_RequestResponseProtocol ==
    /\ [](/\ \A k \in 1 .. Len(pipe_got["server"]) :
                pipe_got["server"][k] = [kind |-> "request", n |-> k, of |-> 0]
          /\ \A k \in 1 .. Len(pipe_got["client"]) :
                pipe_got["client"][k] = [kind |-> "response", n |-> k, of |-> k]
          /\ \A k \in 1 .. Len(pipe_toParent) : pipe_toParent[k].kind = "request"
          /\ \A k \in 1 .. Len(pipe_toChild) : pipe_toChild[k].kind = "response"
          /\ pipe_main \in {"close_parent", "close_child", "done"} =>
                \A t \in PIPE_Threads : pipe_pc[t] = "done")
    /\ <>(/\ pipe_main = "done"
          /\ Len(pipe_got["server"]) = PIPE_clientRounds
          /\ Len(pipe_got["client"]) = PIPE_serverRounds)

\* C24 witness: both endpoints are closed after five requests and five
\* responses were received.
C24_Witness ==
    /\ pipe_main = "done"
    /\ Len(pipe_got["server"]) = 5
    /\ Len(pipe_got["client"]) = 5
    /\ pipe_got["client"][5].of = 5

\* The state FunctionA is in after count increments: WAIT exactly when
\* floor(count / 5) is odd.
FA_StateAt(count) == IF (count \div 5) % 2 = 1 THEN "wait" ELSE "work"

\* C25: every (state, count) pair get_state() returns has state == WAIT
\* exactly when floor(count / 5) is odd; the same holds of FunctionA's
\* fields whenever the lock is free; and a step changes count by adding 1
\* or not at all.
C25_StateFollowsCount ==
    /\ [](/\ fb_seen.state = FA_StateAt(fb_seen.count)
          /\ ~fa_locked => fa_state = FA_StateAt(fa_count))
    /\ [][fa_count' = fa_count \/ fa_count' = fa_count + 1]_vars

\* C25 witness: get_state() has returned WAIT with a count between 5 and 9.
C25_Witness ==
    /\ fb_check_count > 0
    /\ fb_seen.state = "wait"
    /\ fb_seen.count >= 5 /\ fb_seen.count < 10

\* C26 as stated: when stop() has returned, the worker thread has left its
\* loop and count and state are what they were when stop() returned.
C26_StopStopsWorker ==
    fa_main = "stopped" =>
        /\ fa_thread = "done"
        /\ fa_count = fa_atStop.count
        /\ fa_state = fa_atStop.state

====
